---------------------------- MODULE Spec2Model ----------------------------
(***************************************************************************)
(* A model of the PMBD persistent-memory block driver                      *)
(* (drivers/block/pmbd.c, include/linux/pmbd.h): the request dispatcher,   *)
(* the DRAM write buffer with its allocator and flush engine, the syncer,  *)
(* the write-barrier protocol, the unbuffered (direct) PM writer and the   *)
(* page-table write protection.                                            *)
(*                                                                         *)
(* Data.  A sector holds a cell <<val, off>>: the value a write request    *)
(* carries and the sector's offset inside that request's source buffer.    *)
(* A physical block (PB) is SectPerPB sectors; PM and every buffer slot    *)
(* are arrays of cells.                                                    *)
(*                                                                         *)
(* Atomicity.  spin_lock acquisitions are right movers and releases left   *)
(* movers, so a critical section that blocks on nothing else is one        *)
(* action, taken when its lock is free (buffer_lock sections, the          *)
(* per-block section of a buffered read, and so on).  A lock that is held  *)
(* while its holder may block (pbi->lock during an allocation,             *)
(* flush_lock, wr_barrier_lock, the locks of pmbd_lock_on_access) is an    *)
(* explicit variable.  A memcpy to PM that runs without pbi->lock (lockN)  *)
(* is a data race and is taken one sector per step.                        *)
(***************************************************************************)
EXTENDS Integers, Sequences, FiniteSets, TLC

(***************************************************************************)
(* Bounds of the model                                                     *)
(***************************************************************************)
NumThreads == 2      \* request threads (CPUs inside pmbd_make_request)

NumPB == 3           \* physical blocks of the device (PMBD_TOTAL_PB_NUM)

SectPerPB == 2       \* sectors per physical block (PBN_TO_SECTOR(pmbd, 1))

MaxReq == 3          \* requests submitted in one behaviour

BatchSize == 1       \* buffer->batch_size (option batch<n>, n >= 1)

MaxSync == 1         \* rounds in which the syncer decides to flush, in one behaviour

MaxJiffies == 3      \* ticks of the timer in one behaviour

UsecPerJiffy == 1000 \* USEC_PER_SEC / HZ, for a kernel built with HZ = 1000

PMBD_BUFFER_FLUSH_IDLE_TIMEOUT == 2000   \* microseconds

(***************************************************************************)
(* Geometry and names                                                      *)
(***************************************************************************)
Buffers == {0}                      \* buffer ids of the device (bufnum1)

num_buffers == Cardinality(Buffers)

buffer_stride == 1024

num_blocks == NumPB - 1             \* slots of one buffer (buffer->num_blocks)

num_sectors == NumPB * SectPerPB    \* pmbd->num_sectors == get_capacity()

PMBD_TOTAL_PB_NUM == num_sectors \div SectPerPB

Threads == 1 .. NumThreads

Syncer(b) == NumThreads + 1 + b

Syncers == {Syncer(b) : b \in Buffers}

\* the thread that removes the device (pmbd_exit, pmbd_del_one)
Destroyer == NumThreads + num_buffers + 1

Procs == Threads \cup Syncers \cup {Destroyer}

Free == 0

PBNs == 0 .. (PMBD_TOTAL_PB_NUM - 1)

BBNs == 0 .. (num_blocks - 1)

Sectors == 0 .. (num_sectors - 1)

Offs == 0 .. (SectPerPB - 1)

InitCell == <<0, 0>>              \* PM content before any request

JunkCell == <<0, 1>>              \* vmalloc'ed slot memory never written

READ == "R"

WRITE == "W"

CALLER_ALLOCATOR == 0

CALLER_SYNCER == 1

CALLER_DESTROYER == 2

EIO == "EIO"

ERR_NONE == "OK"

(***************************************************************************)
(* Address arithmetic (pmbd.h)                                             *)
(***************************************************************************)
SECTOR_TO_PBN(sect) == sect \div SectPerPB

PBN_TO_SECTOR(pbn) == pbn * SectPerPB

PBN_TO_PMBD_BUFFER_ID(pbn) == (pbn \div buffer_stride) % num_buffers

PBI_UNBUFFERED == PMBD_TOTAL_PB_NUM + 3     \* PMBD_SET_BLOCK_UNBUFFERED

BBI_UNBUFFERED == PMBD_TOTAL_PB_NUM + 2     \* PMBD_BUFFER_SET_BBI_UNBUFFERED

PMBD_BUFFER_NEXT_POS(pos) == IF pos = num_blocks - 1 THEN 0 ELSE pos + 1

PMBD_BUFFER_PRIO_POS(pos) == IF pos = 0 THEN num_blocks - 1 ELSE pos - 1

PMBD_BUFFER_NEXT_N_POS(pos, n) == (pos + n) % num_blocks

\* the sectors of physical block pbn
SectorsOf(pbn) == {PBN_TO_SECTOR(pbn) + o : o \in Offs}

\* index of sector o of slot bbn in a buffer's buffer_space
SlotIdx(bbn, o) == bbn * SectPerPB + o

SlotIdxs == 0 .. (num_blocks * SectPerPB - 1)

(***************************************************************************)
(* Module options (pmbd_parse_conf) and the configurations explored.       *)
(* bufmode: the device has a buffer; wb / fua: flush and FUA flags are     *)
(* honoured; lock: pmbd_lock_on_access takes the PBI locks; wrprot with    *)
(* wpmode = 0: PM pages are write-protected through their PTEs.            *)
(***************************************************************************)
Config(bufmode, wb, fua, lock, wrprot, wpmode) ==
    [bufmode |-> bufmode, wb |-> wb, fua |-> fua, lock |-> lock,
     wrprot |-> wrprot, wpmode |-> wpmode]

\* what one behaviour explores: a configuration, the number of requests
\* submitted to it and the number of rounds in which the syncer decides to flush
Scenario(config, maxreq, maxsync) == [cfg |-> config, maxreq |-> maxreq, maxsync |-> maxsync]

Scenarios ==
    { Scenario(Config(TRUE,  TRUE,  TRUE,  TRUE,  FALSE, 0), MaxReq,     0),
      Scenario(Config(TRUE,  TRUE,  TRUE,  TRUE,  FALSE, 0), MaxReq - 1, MaxSync),
      Scenario(Config(TRUE,  FALSE, TRUE,  TRUE,  TRUE,  0), MaxReq - 1, MaxSync),
      Scenario(Config(FALSE, TRUE,  TRUE,  TRUE,  TRUE,  0), MaxReq,     0),
      Scenario(Config(FALSE, TRUE,  TRUE,  FALSE, FALSE, 0), MaxReq - 1, 0) }

VARIABLES
    cfg,              \* the options of the device
    load,             \* the bounds of this behaviour: requests, syncer rounds
    pm,               \* pmbd->mem_space, one cell per sector
    page_rw,          \* PTE of the page of each PB: TRUE = writable
    pbi_bbn,          \* pbi->bbn of each PB
    pbi_lock,         \* pbi->lock of each PB: its holder, or Free
    buffer_space,     \* buffer->buffer_space, one cell per slot sector
    bbi_pbn,          \* bbi->pbn of each slot
    bbi_dirty,        \* bbi->dirty of each slot
    num_dirty,        \* buffer->num_dirty
    pos_dirty,        \* buffer->pos_dirty
    pos_clean,        \* buffer->pos_clean
    flush_lock,       \* buffer->flush_lock: its holder, or Free
    fl,               \* locals of the pmbd_buffer_flush call in progress
    wr_barrier_lock,  \* pmbd->wr_barrier_lock: its holder, or Free
    num_flying_wr,    \* pmbd->num_flying_wr
    pc,               \* position of each thread in its code
    loc,              \* locals of each thread
    req,              \* the bio each request thread is serving
    out,              \* the destination page of a read, filled so far
    status,           \* the error code handed to bio_endio
    nreq,             \* number of requests submitted so far
    nsync,            \* number of flushing rounds the syncer has started
    cands,            \* history: contents a sector may legitimately hold
    solo,             \* history: sectors of a write no other write overlapped
    bar_allowed,      \* history: contents PM may hold when a barrier ends
    blk_w,            \* history: whole-block writes competing for each PB
    rd_quiet,         \* history: no write was submitted since the read was
    stable,           \* history: PM as it was between unlocked direct writes
    snaps,            \* history: block contents seen during an unlocked read
    torn,             \* history: some read returned a torn block
    rt_ok,            \* history: every read returned a legitimate content
    syncer,           \* buffer->syncer: "run", "stop" once kthread_stop asked it to end, "none"
    buffers,          \* pmbd->buffers[i]: "live", or "freed" once its memory is released
    mode,             \* the module parameter mode: the options given to modprobe
    g,                \* the configuration globals g_pmbd_* set by pmbd_parse_conf
    ld,               \* pmbd_init: its position and the value it returns
    res,              \* what pmbd_init and pmbd_alloc have allocated or registered
    checksum_space,   \* pmbd->checksum_space: the stored checksum of each page
    ck_log,           \* the kernel log holds "checksum mismatch found!"
    now,              \* the time stamp counter (TIMESTAMP), in cycles
    batch,            \* pmbd->batch_start_cycle, batch_end_cycle, batch_sectors of READ and of WRITE
    batch_lock,       \* pmbd->batch_lock: its holder, or Free
    jiffies,          \* the tick counter of the kernel
    last_access_jiffies \* pmbd_stat->last_access_jiffies

pmVars == <<pm, page_rw>>

bufVars == <<pbi_bbn, buffer_space, bbi_pbn, bbi_dirty, num_dirty, pos_dirty, pos_clean>>

lockVars == <<pbi_lock, flush_lock, wr_barrier_lock>>

reqVars == <<req, out, status, nreq, nsync>>

subVars == <<cands, solo, bar_allowed, blk_w, rd_quiet>>

histVars == <<subVars, stable>>

readVars == <<torn, rt_ok>>

lifeVars == <<syncer, buffers>>

loadVars == <<mode, g, ld, res>>

sumVars == <<checksum_space, ck_log>>

emuVars == <<now, batch, batch_lock>>

statVars == <<jiffies, last_access_jiffies>>

vars == <<cfg, load, loadVars, emuVars, statVars, lifeVars, sumVars, pmVars, bufVars, lockVars, fl, num_flying_wr, pc, loc, reqVars,
          histVars, snaps, readVars>>

(***************************************************************************)
(* Requests                                                                *)
(***************************************************************************)
NoReq == [rw |-> READ, sector |-> 0, nsect |-> 0, flush |-> FALSE, fua |-> FALSE, val |-> 0]

Bio(rw, sector, nsect, flush, fua, id) ==
    [rw |-> rw, sector |-> sector, nsect |-> nsect, flush |-> flush, fua |-> fua, val |-> id]

\* the bios a caller hands to pmbd_make_request in this model; WRITE_FLUSH
\* and WRITE_FUA contain the WRITE bit, so only writes carry the two flags.
\* Request id writes the data <<id, 0>>, <<id, 1>>, ...
Requests(id) ==
    { Bio(WRITE, 0, 1, FALSE, FALSE, id),                        \* part of a block
      Bio(WRITE, 0, SectPerPB + 1, FALSE, FALSE, id),            \* a block and part of the next
      Bio(WRITE, 0, SectPerPB, FALSE, TRUE, id),                 \* a whole block, FUA
      Bio(WRITE, num_sectors - SectPerPB, SectPerPB, FALSE, FALSE, id),  \* the last block
      Bio(WRITE, 0, 0, TRUE, FALSE, id),                         \* an empty flush
      Bio(WRITE, num_sectors - 1, SectPerPB, TRUE, FALSE, id),   \* beyond the capacity, flush
      Bio(WRITE, num_sectors - 1, SectPerPB, FALSE, FALSE, id),  \* beyond the capacity
      Bio(WRITE, num_sectors + 1, 0, FALSE, FALSE, id),          \* empty, beyond the capacity
      Bio(READ, 0, SectPerPB + 1, FALSE, FALSE, id),             \* a block and part of the next
      Bio(READ, 1, 1, FALSE, FALSE, id) }                        \* part of a block

\* the bios of the behaviours that look at the locks only: an FUA write
\* over every block, buffered writes that need a slot, a read, a barrier
LockRequests(id) ==
    { Bio(WRITE, 0, SectPerPB + 1, FALSE, TRUE, id),             \* a block and part of the next, FUA
      Bio(WRITE, 0, SectPerPB + 1, FALSE, FALSE, id),            \* a block and part of the next
      Bio(WRITE, num_sectors - SectPerPB, SectPerPB, FALSE, FALSE, id),  \* the last block
      Bio(WRITE, 0, 0, TRUE, FALSE, id),                         \* an empty flush
      Bio(READ, 0, SectPerPB + 1, FALSE, FALSE, id) }            \* a block and part of the next

\* the bios of the behaviours that never end; every write carries the same
\* data.  "writers": a write of each block; "barrier": a barrier, a read
\* and a write of the first block; "timed": a write of the first block
FairRequests(bios) ==
    IF bios = "writers"
    THEN {Bio(WRITE, PBN_TO_SECTOR(p), SectPerPB, FALSE, FALSE, 1) : p \in PBNs}
    ELSE IF bios = "barrier"
    THEN {Bio(WRITE, 0, 0, TRUE, FALSE, 1), Bio(READ, 0, SectPerPB, FALSE, FALSE, 1),
          Bio(WRITE, 0, SectPerPB, FALSE, FALSE, 1)}
    ELSE {Bio(WRITE, 0, SectPerPB, FALSE, FALSE, 1)}

\* behaviours in which the tick counter runs
Timed == load.bios = "timed"

Endless == load.bios \in {"writers", "barrier", "timed"}

\* the capacity check of pmbd_make_request
ExceedsCapacity(r) == r.sector + r.nsect > num_sectors

\* the request reaches the copy loop
Transfers(r) == ~ExceedsCapacity(r) /\ r.nsect > 0

\* sectors the request transfers
RangeOf(r) == IF Transfers(r) THEN r.sector .. (r.sector + r.nsect - 1) ELSE {}

\* the source page of write r holds this cell for sector s
SrcCell(r, s) == <<r.val, s - r.sector>>

pmbd_buffer_aligned_request_start(sector, nsect) ==
    LET sector_s == sector
        block_s == PBN_TO_SECTOR(SECTOR_TO_PBN(sector_s))
    IN  IF sector_s >= block_s THEN sector_s - block_s ELSE 0

\* faulty variant of pmbd_buffer_aligned_request_end: the last block is
\* always taken up to its end
pmbd_buffer_aligned_request_end_full(sector, nsect) == PBN_TO_SECTOR(1) - 1

pmbd_buffer_aligned_request_end(sector, nsect) ==
    LET sector_e == sector + nsect - 1
        block_e == PBN_TO_SECTOR(SECTOR_TO_PBN(sector_e))
    IN  IF sector_e >= block_e THEN sector_e - block_e ELSE PBN_TO_SECTOR(1) - 1

PbnS(r) == SECTOR_TO_PBN(r.sector)

PbnE(r) == SECTOR_TO_PBN(r.sector + r.nsect - 1)

\* first and last in-block sector offset of request r inside block pbn
SectS(r, pbn) == IF pbn = PbnS(r) THEN pmbd_buffer_aligned_request_start(r.sector, r.nsect) ELSE 0

SectE(r, pbn) == IF pbn = PbnE(r) THEN pmbd_buffer_aligned_request_end(r.sector, r.nsect)
                 ELSE PBN_TO_SECTOR(1) - 1

(***************************************************************************)
(* Buffer and protection helpers                                           *)
(***************************************************************************)
PMBD_BLOCK_IS_BUFFERED(pbn) == pbi_bbn[pbn] < num_blocks

\* NULL (FALSE) or the slot the block is bound to
_pmbd_buffer_lookup(pbn) == PMBD_BLOCK_IS_BUFFERED(pbn)

\* faulty variant of PMBD_BUFFER_IS_FULL: full only beyond num_blocks
PMBD_BUFFER_IS_FULL_late(b) == num_dirty[b] > num_blocks

PMBD_BUFFER_IS_FULL(b) == num_dirty[b] >= num_blocks

PMBD_BUFFER_IS_EMPTY(b) == num_dirty[b] = 0

\* faulty variant of PMBD_BUFFER_ABOVE_LW: the low watermark at zero
PMBD_BUFFER_ABOVE_LW_zero(b) == 10 * num_dirty[b] >= 0

\* num_dirty >= num_blocks * 0.7 and num_dirty >= num_blocks * 0.1
PMBD_BUFFER_ABOVE_HW(b) == 10 * num_dirty[b] >= 7 * num_blocks

PMBD_BUFFER_ABOVE_LW(b) == 10 * num_dirty[b] >= num_blocks

PMBD_USE_WRITE_PROTECTION == cfg.wrprot

PMBD_DEV_USE_WPMODE_PTE == cfg.wpmode = 0

\* a store to sector s raises a page fault: the page is read-only and
\* CR0.WP is not switched off around the copy
Faults(s) == ~page_rw[SECTOR_TO_PBN(s)] /\ PMBD_DEV_USE_WPMODE_PTE

\* the content a read of sector s is served from: the slot of a buffered
\* block, PM otherwise
Logical(s) ==
    LET pbn == SECTOR_TO_PBN(s)
    IN  IF cfg.bufmode /\ PMBD_BLOCK_IS_BUFFERED(pbn)
        THEN buffer_space[PBN_TO_PMBD_BUFFER_ID(pbn)][SlotIdx(pbi_bbn[pbn], s - PBN_TO_SECTOR(pbn))]
        ELSE pm[s]

NoLoc == [pbn |-> 0, k |-> 0, from |-> 0, i |-> 0, b |-> 0, n |-> 0, fp |-> 0, ck |-> {}, start |-> 0, wake |-> 0,
          caller |-> CALLER_ALLOCATOR, ret |-> "none", err |-> EIO, now_jiffies |-> 0, idle_usec |-> <<0, 0>>]

\* buffer->buffer_lock of buffer b is not held by the syncer, which keeps it
\* from its watermark check to the end of its idle test
BufferLockFree(b) == \A q \in Syncers : ~(pc[q] = "sy_now" /\ loc[q].b = b)

NoFlush == [sort |-> <<>>, i |-> 0, first |-> 0, last |-> 0, bbn_s |-> 0, num_cleaned |-> 0]

\* batch_start_cycle, batch_end_cycle and batch_sectors after kzalloc
NoBatch == [rw \in {READ, WRITE} |-> [start_cycle |-> 0, end_cycle |-> 0, sectors |-> 0]]

\* a write request that is being served and transfers data
InFlightW(t) == pc[t] # "idle" /\ req[t].rw = WRITE /\ Transfers(req[t])

(***************************************************************************)
(* Checksums.  An unsigned 32-bit word is the set of the positions of its  *)
(* one bits.  A page is one physical block (pb_size = checksum_unit_size = *)
(* PAGE_SIZE); a sector counts as one byte of its page.                    *)
(***************************************************************************)
PMBD_USE_CHECKSUM == g.checksum

\* the byte a cell stands for
ByteOf(c) == c[1] * 16 + c[2]

BitsOf(byte) == {i \in 0 .. 7 : (byte \div (2 ^ i)) % 2 = 1}

\* a ^ b
Xor(a, b) == (a \ b) \cup (b \ a)

\* a >> 1
Shr1(a) == {i - 1 : i \in a \ {0}}

\* 0xedb88320
CRCPOLY == {5, 8, 9, 15, 19, 20, 21, 23, 24, 26, 27, 29, 30, 31}

\* for (i = 0; i < 8; i++) crc = (crc >> 1) ^ ((crc & 1) ? 0xedb88320 : 0)
RECURSIVE crc32_rounds(_, _)
crc32_rounds(crc, n) ==
    IF n = 0 THEN crc
    ELSE crc32_rounds(Xor(Shr1(crc), IF 0 \in crc THEN CRCPOLY ELSE {}), n - 1)

\* while (len--) { crc ^= *p++; ... }
RECURSIVE crc32_loop(_, _, _)
crc32_loop(bytes, i, crc) ==
    IF i > Len(bytes) THEN crc
    ELSE crc32_loop(bytes, i + 1, crc32_rounds(Xor(crc, BitsOf(bytes[i])), 8))

crc32_my(bytes) == crc32_loop(bytes, 1, {})

\* the cells a sector can hold
Cells == (0 .. MaxReq) \X (0 .. (num_sectors - 1))

\* pmbd_checksum_func of every page content, computed once
pmbd_checksum_func == [pg \in [Offs -> Cells] |-> crc32_my([j \in 1 .. SectPerPB |-> ByteOf(pg[j - 1])])]

\* the content of page x in PM
PageOf(x) == [o \in Offs |-> pm[PBN_TO_SECTOR(x) + o]]

\* pages other callers of pmbd_cal_checksum may be copying into
\* checksum_iomem_buf while p computes a checksum: the buffer is shared by
\* all callers and no lock guards it
ScratchPeers(p) ==
    {loc[q].fp : q \in {q \in Procs \ {p} : pc[q] \in {"ub_cal", "fr_cal"}}}
    \cup {loc[q].pbn : q \in {q \in Threads \ {p} :
                                  /\ pc[q] = "rd_buf" /\ PMBD_USE_CHECKSUM
                                  /\ pbi_lock[loc[q].pbn] = Free
                                  /\ ~PMBD_BLOCK_IS_BUFFERED(loc[q].pbn)}}
    \cup UNION {PbnS(req[q]) .. PbnE(req[q]) :
                   q \in {q \in Threads \ {p} : pc[q] = "ubr_copy" /\ PMBD_USE_CHECKSUM /\ loc[q].k = 0}}

\* the values pmbd_cal_checksum of page x may return to p: the bytes under
\* the CRC are those of page x or, sector by sector, those another caller
\* copied into checksum_iomem_buf at the same time
pmbd_cal_checksum(p, x) ==
    {pmbd_checksum_func[[o \in Offs |-> IF o \in S THEN PageOf(y)[o] ELSE PageOf(x)[o]]] :
        <<y, S>> \in (ScratchPeers(p) \cup {x}) \X (SUBSET Offs)}

\* pmbd_checksum_on_read over the pages P: whether a mismatch is logged
pmbd_checksum_on_read(p, P) ==
    {b \in BOOLEAN : IF b THEN \E x \in P : \E c \in pmbd_cal_checksum(p, x) : c # checksum_space[x]
                     ELSE \A x \in P : checksum_space[x] \in pmbd_cal_checksum(p, x)}

(***************************************************************************)
(* The option string and pmbd_parse_conf.  mode is a set of options; an    *)
(* option is a tag followed by Y, N, a number ("#", its value in num) or   *)
(* nothing.  No tag of the options used here is part of another option, so *)
(* strstr(mode, tag) is the presence of an option with that tag.           *)
(***************************************************************************)
Opt(tag, arg, num) == [tag |-> tag, arg |-> arg, num |-> num]

\* strstr(mode, tag)
strstr(m, tag) == \E o \in m : o.tag = tag

\* strstr(mode, "<tag>Y"), strstr(mode, "<tag>N")
strstr_arg(m, tag, arg) == \E o \in m : o.tag = tag /\ o.arg = arg

\* the number that follows the tag
NumOf(m, tag) == (CHOOSE o \in m : o.tag = tag).num

\* _pmbd_parse_multi: how many numbers follow the tag (one device here)
_pmbd_parse_multi(m, tag) == IF \E o \in m : o.tag = tag /\ o.arg = "#" THEN 1 ELSE 0

\* _pmbd_parse_single: -1 when the tag is there and no digit follows it
_pmbd_parse_single(m, tag) == IF \E o \in m : o.tag = tag /\ o.arg # "#" THEN -1 ELSE 0

PMBD_CONFIG_VMALLOC == 0

PMBD_CONFIG_HIGHMEM == 1

PMBD_BUFFER_MIN_BUFSIZE == 4

\* the initial values of the globals
DefaultConf ==
    [nr |-> 0, size |-> 0, bufsize |-> 0, num_buffers |-> 0, type |-> PMBD_CONFIG_HIGHMEM,
     pmap |-> FALSE, wb |-> FALSE, fua |-> TRUE, wr_protect |-> FALSE, lock |-> TRUE,
     wpmode |-> 0, highmem_size |-> 0, checksum |-> FALSE,
     rdlat |-> 0, wrlat |-> 0, rdbw |-> 0, wrbw |-> 0, rdsx |-> 0, wrsx |-> 0, simmode |-> 0]

\* a Y/N option sets its global, or leaves it alone
YesNo(m, tag, old) == IF strstr_arg(m, tag, "Y") THEN TRUE
                      ELSE IF strstr_arg(m, tag, "N") THEN FALSE ELSE old

\* the checks of pmbd_parse_conf in the order of the code
ParseStages == <<"pmbd", "rdlat", "wrlat", "rdbw", "wrbw", "rdsx", "wrsx", "bufsize", "bufnum", "type", "pmap", "wb", "fua", "highmem", "wrprot",
                 "checksum", "lock", "simmode", "wpmode">>

\* one check: the globals after it, and whether it ended in goto fail
ParseStage(st, m, gg) ==
    LET ok(x) == [g |-> x, fail |-> FALSE]
        fail == [g |-> gg, fail |-> TRUE]
    IN  CASE st = "pmbd" ->
               IF strstr(m, "pmbd") /\ _pmbd_parse_multi(m, "pmbd") > 0
               THEN ok([gg EXCEPT !.nr = _pmbd_parse_multi(m, "pmbd"), !.size = NumOf(m, "pmbd")])
               ELSE fail
          [] st \in {"rdlat", "wrlat", "rdbw", "wrbw", "rdsx", "wrsx", "simmode"} ->
               ok(IF strstr(m, st) /\ _pmbd_parse_multi(m, st) > 0
                  THEN [gg EXCEPT ![st] = NumOf(m, st)] ELSE gg)
          [] st = "bufsize" ->
               IF ~strstr(m, "bufsize") THEN ok(gg)
               ELSE IF _pmbd_parse_multi(m, "bufsize") = 0 THEN ok(gg)
               ELSE IF NumOf(m, "bufsize") > 0 /\ NumOf(m, "bufsize") < PMBD_BUFFER_MIN_BUFSIZE
                    THEN [g |-> [gg EXCEPT !.bufsize = NumOf(m, "bufsize")], fail |-> TRUE]
                    ELSE ok([gg EXCEPT !.bufsize = NumOf(m, "bufsize")])
          [] st = "bufnum" ->
               IF ~strstr(m, "bufnum") THEN ok(gg)
               ELSE IF _pmbd_parse_single(m, "bufnum") < 0 THEN fail
               ELSE ok([gg EXCEPT !.num_buffers = NumOf(m, "bufnum")])
          [] st = "type" ->
               ok([gg EXCEPT !.type = IF strstr(m, "VM") THEN PMBD_CONFIG_VMALLOC
                                      ELSE IF strstr(m, "HM") THEN PMBD_CONFIG_HIGHMEM ELSE @])
          [] st = "pmap" ->
               LET g1 == [gg EXCEPT !.pmap = YesNo(m, "pmap", @)]
               IN  IF strstr(m, "PMAP") THEN [g |-> g1, fail |-> TRUE] ELSE ok(g1)
          [] st = "wb" -> ok([gg EXCEPT !.wb = YesNo(m, "wb", @)])
          [] st = "fua" -> ok([gg EXCEPT !.fua = YesNo(m, "fua", @)])
          [] st = "highmem" ->
               IF gg.type # PMBD_CONFIG_HIGHMEM THEN ok(gg)
               ELSE IF ~(strstr(m, "hmo") /\ strstr(m, "hms")) THEN fail
               ELSE IF _pmbd_parse_single(m, "hmo") < 0 THEN fail
               ELSE IF _pmbd_parse_single(m, "hms") < 0 \/ NumOf(m, "hms") = 0 THEN fail
               ELSE ok([gg EXCEPT !.highmem_size = NumOf(m, "hms")])
          [] st = "wrprot" -> ok([gg EXCEPT !.wr_protect = YesNo(m, "wrprot", @)])
          [] st = "checksum" -> ok([gg EXCEPT !.checksum = YesNo(m, "checksum", @)])
          [] st = "lock" -> ok([gg EXCEPT !.lock = YesNo(m, "lock", @)])
          [] st = "wpmode" ->
               ok(IF strstr(m, "wpmode") /\ _pmbd_parse_multi(m, "wpmode") > 0
                  THEN [gg EXCEPT !.wpmode = NumOf(m, "wpmode")] ELSE gg)

RECURSIVE RunParse(_, _, _)
RunParse(i, m, r) ==
    IF i > Len(ParseStages) \/ r.fail THEN r
    ELSE RunParse(i + 1, m, ParseStage(ParseStages[i], m, r.g))

\* pmbd_parse_conf: an empty mode or a failed check leaves g_pmbd_nr = 0
pmbd_parse_conf(m, gg) ==
    LET r == IF m = {} THEN [g |-> gg, fail |-> TRUE]
             ELSE RunParse(1, m, [g |-> gg, fail |-> FALSE])
    IN  IF r.fail THEN [r.g EXCEPT !.nr = 0] ELSE r.g

\* what the driver reads of the configuration: pmbd->bufmode set by
\* pmbd_alloc, PMBD_USE_WB, PMBD_USE_FUA, PMBD_USE_LOCK,
\* PMBD_USE_WRITE_PROTECTION, pmbd->wpmode
ConfigOf(gg) ==
    Config(gg.bufsize > 0 /\ gg.num_buffers > 0, gg.wb, gg.fua, gg.lock, gg.wr_protect, gg.wpmode)

\* an option string that selects configuration c on a vmalloc'ed device
ModeOf(c) ==
    { Opt("pmbd", "#", 1), Opt("VM", "", 0), Opt("bufnum", "#", 1),
      Opt("bufsize", "#", IF c.bufmode THEN PMBD_BUFFER_MIN_BUFSIZE ELSE 0),
      Opt("wb", IF c.wb THEN "Y" ELSE "N", 0), Opt("fua", IF c.fua THEN "Y" ELSE "N", 0),
      Opt("lock", IF c.lock THEN "Y" ELSE "N", 0),
      Opt("wrprot", IF c.wrprot THEN "Y" ELSE "N", 0), Opt("wpmode", "#", c.wpmode) }

\* everything a loaded module with one device holds
Loaded ==
    {"proc", "blkdev", "pmbd", "queue", "disk", "stat", "mem_space", "buffers", "checksum_space",
     "checksum_iomem_buf", "pbi_space", "proc_devstat", "gendisk"}

(***************************************************************************)
(* The state at the end of pmbd_create                                     *)
(***************************************************************************)
Init ==
    /\ \E sc \in Scenarios : cfg = sc.cfg /\ load = [maxreq |-> sc.maxreq, maxsync |-> sc.maxsync, bios |-> "mixed"]
    /\ pm = [s \in Sectors |-> InitCell]
    /\ page_rw = [p \in PBNs |-> ~cfg.wrprot]
    /\ pbi_bbn = [p \in PBNs |-> PBI_UNBUFFERED]
    /\ pbi_lock = [p \in PBNs |-> Free]
    /\ buffer_space = [b \in Buffers |-> [x \in SlotIdxs |-> JunkCell]]
    /\ bbi_pbn = [b \in Buffers |-> [x \in BBNs |-> BBI_UNBUFFERED]]
    /\ bbi_dirty = [b \in Buffers |-> [x \in BBNs |-> FALSE]]
    /\ num_dirty = [b \in Buffers |-> 0]
    /\ pos_dirty = [b \in Buffers |-> 0]
    /\ pos_clean = [b \in Buffers |-> 0]
    /\ flush_lock = [b \in Buffers |-> Free]
    /\ fl = [b \in Buffers |-> NoFlush]
    /\ wr_barrier_lock = Free
    /\ num_flying_wr = 0
    /\ pc = [p \in Procs |-> IF p \in Threads THEN "idle" ELSE IF p \in Syncers THEN "sy_check" ELSE "up"]
    /\ loc = [p \in Procs |-> IF p \in Syncers THEN [NoLoc EXCEPT !.b = p - NumThreads - 1] ELSE NoLoc]
    /\ req = [t \in Threads |-> NoReq]
    /\ out = [t \in Threads |-> <<>>]
    /\ status = [t \in Threads |-> "none"]
    /\ nreq = 0
    /\ nsync = 0
    /\ cands = [s \in Sectors |-> {InitCell}]
    /\ solo = [t \in Threads |-> {}]
    /\ bar_allowed = [t \in Threads |-> [s \in Sectors |-> {}]]
    /\ blk_w = [p \in PBNs |-> [full |-> FALSE, ws |-> {}]]
    /\ rd_quiet = [t \in Threads |-> FALSE]
    /\ stable = [s \in Sectors |-> InitCell]
    /\ snaps = [t \in Threads |-> {}]
    /\ torn = FALSE
    /\ rt_ok = TRUE
    /\ syncer = [b \in Buffers |-> "run"]
    /\ buffers = [b \in Buffers |-> "live"]
    /\ mode = ModeOf(cfg)
    /\ g = pmbd_parse_conf(mode, DefaultConf)
    /\ ld = [pc |-> "loaded", ret |-> ERR_NONE]
    /\ res = Loaded
    /\ checksum_space = [p \in PBNs |-> {}]
    /\ ck_log = FALSE
    /\ now = 0
    /\ batch = NoBatch
    /\ batch_lock = Free
    /\ jiffies = 0
    /\ last_access_jiffies = 0

(***************************************************************************)
(* History variables at the submission of request r by thread t            *)
(***************************************************************************)
\* (behaviours whose bios never stop keep no history)
SubmitHistory(t, r) ==
    IF Endless THEN UNCHANGED subVars
    ELSE
    LET R == RangeOf(r)
        isw == r.rw = WRITE /\ R # {}
        cands1 == [s \in Sectors |-> IF isw /\ s \in R THEN cands[s] \cup {SrcCell(r, s)} ELSE cands[s]]
        others == UNION {RangeOf(req[u]) : u \in {v \in Threads \ {t} : InFlightW(v)}}
        touch(u, p) == RangeOf(req[u]) \cap SectorsOf(p) # {}
    IN  /\ cands' = cands1
        /\ solo' = [u \in Threads |-> IF u = t THEN (IF isw THEN R \ others ELSE {})
                                      ELSE IF isw THEN solo[u] \ R ELSE solo[u]]
        /\ bar_allowed' = [u \in Threads |->
              IF u = t THEN (IF r.flush /\ cfg.wb THEN cands1 ELSE [s \in Sectors |-> {}])
              ELSE IF isw /\ pc[u] # "idle" /\ req[u].flush /\ cfg.wb
                   THEN [s \in Sectors |-> IF s \in R THEN bar_allowed[u][s] \cup {SrcCell(r, s)}
                                                      ELSE bar_allowed[u][s]]
                   ELSE bar_allowed[u]]
        /\ blk_w' = [p \in PBNs |->
              IF ~isw \/ R \cap SectorsOf(p) = {} THEN blk_w[p]
              ELSE LET whole == SectorsOf(p) \subseteq R
                       mine == IF whole THEN {<<r.val, r.sector>>} ELSE {}
                   IN  IF \E u \in Threads \ {t} : InFlightW(u) /\ touch(u, p)
                       THEN [full |-> blk_w[p].full /\ whole, ws |-> blk_w[p].ws \cup mine]
                       ELSE [full |-> whole, ws |-> mine]]
        /\ rd_quiet' = [u \in Threads |->
              IF u = t THEN r.rw = READ /\ \A v \in Threads \ {t} : ~InFlightW(v)
              ELSE IF isw THEN FALSE ELSE rd_quiet[u]]

\* thread t holds the PBI lock of every block of its request
HoldsRange(t) == \A p \in PbnS(req[t]) .. PbnE(req[t]) : pbi_lock[p] = t

\* some unlocked direct write has stored part, but not all, of its sectors
\* among S (pcx, locx, reqx: the state looked at)
MidIn(pcx, locx, reqx, S) ==
    \E w \in Threads :
        /\ pcx[w] = "ub_copy"
        /\ LET Sw == RangeOf(reqx[w]) \cap S
               done == {s \in Sw : s - reqx[w].sector < locx[w].k}
           IN  done # {} /\ done # Sw

\* history: stable keeps, for a block an unlocked direct write is midway
\* through, the content the block had before; otherwise it follows PM
StableUpd ==
    stable' = [s \in Sectors |->
        IF MidIn(pc', loc', req', SectorsOf(SECTOR_TO_PBN(s))) THEN stable[s] ELSE pm'[s]]

\* the part of block p a read r asks for, as x holds it
SegOf(x, r, p) == [s \in RangeOf(r) \cap SectorsOf(p) |-> x[s]]

\* history: while a read copies a block without holding its lock, collect
\* the contents its part of the block has between writes: what PM holds
\* whenever no write is midway through that part, and what the block held
\* before the writes that are
SnapUpd ==
    snaps' = [t \in Threads |->
        IF pc'[t] = "ubr_copy" /\ \E q \in PBNs : pbi_lock'[q] # t
        THEN LET p == SECTOR_TO_PBN(req'[t].sector + loc'[t].k)
                 base == IF pc[t] = "ubr_copy" /\ SECTOR_TO_PBN(req[t].sector + loc[t].k) = p
                         THEN snaps[t] ELSE {}
             IN  base \cup {IF MidIn(pc', loc', req', RangeOf(req'[t]) \cap SectorsOf(p))
                            THEN SegOf(stable', req'[t], p) ELSE SegOf(pm', req'[t], p)}
        ELSE {}]

(***************************************************************************)
(* pmbd_make_request: the dispatcher                                       *)
(***************************************************************************)
\* where the segment copy of request r starts (pmbd_seg_read_write,
\* copy_to_pmbd, copy_from_pmbd)
CopyEntry(r) ==
    IF r.rw = READ
    THEN (IF cfg.bufmode THEN "rd_buf" ELSE "ubr_lock")
    ELSE (IF cfg.bufmode THEN "wr_lock" ELSE "ub_lock")

\* a bio arrives at the registered disk: the barrier is run first when the
\* bio carries WRITE_FLUSH and barriers are honoured
make_request_submit(t) ==
    /\ pc[t] = "idle"
    /\ pc[Destroyer] = "up"
    /\ nreq < load.maxreq
    /\ \E r \in (IF load.bios = "locks" THEN LockRequests(nreq + 1)
                ELSE IF Endless THEN FairRequests(load.bios) ELSE Requests(nreq + 1)) :
          /\ req' = [req EXCEPT ![t] = r]
          /\ pc' = [pc EXCEPT ![t] = IF r.flush /\ cfg.wb THEN "wb_lock"
                                     ELSE IF r.rw = WRITE THEN "gate" ELSE "inc"]
          /\ SubmitHistory(t, r)
    /\ nreq' = IF Endless THEN nreq ELSE nreq + 1
    /\ UNCHANGED <<cfg, load, loadVars, emuVars, statVars, lifeVars, sumVars, pmVars, bufVars, lockVars, fl, num_flying_wr, loc, out, status, nsync, stable, readVars>>
    /\ SnapUpd

\* spin_lock(&pmbd->wr_barrier_lock); spin_unlock(&pmbd->wr_barrier_lock)
make_request_gate(t) ==
    /\ pc[t] = "gate"
    /\ wr_barrier_lock = Free
    /\ pc' = [pc EXCEPT ![t] = "inc"]
    /\ UNCHANGED <<cfg, load, loadVars, emuVars, statVars, lifeVars, sumVars, pmVars, bufVars, lockVars, fl, num_flying_wr, loc, reqVars, histVars, snaps, readVars>>

\* PMBD_DEV_UPDATE_ACCESS_TIME(pmbd), reached by a bio that has sectors
\* within the capacity
AccessTime(r) ==
    /\ last_access_jiffies' = IF ExceedsCapacity(r) \/ r.nsect = 0 THEN last_access_jiffies ELSE jiffies
    /\ UNCHANGED jiffies

\* faulty variant of make_request_inc: err starts as 0, so a bio beyond the
\* capacity is completed with success
make_request_inc_err0(t) ==
    /\ pc[t] = "inc"
    /\ num_flying_wr' = num_flying_wr + 1
    /\ IF ExceedsCapacity(req[t]) \/ req[t].nsect = 0
       THEN /\ pc' = [pc EXCEPT ![t] = "endio"]
            /\ loc' = [loc EXCEPT ![t] = [NoLoc EXCEPT !.err = ERR_NONE]]
       ELSE /\ pc' = [pc EXCEPT ![t] = CopyEntry(req[t])]
            /\ loc' = [loc EXCEPT ![t] = [NoLoc EXCEPT !.err = ERR_NONE, !.pbn = PbnS(req[t])]]
    /\ UNCHANGED <<cfg, load, loadVars, emuVars, lifeVars, sumVars, pmVars, bufVars, lockVars, fl, reqVars, histVars, readVars>>
    /\ AccessTime(req[t])
    /\ SnapUpd

\* faulty variant of make_request_inc: err is not reset for an empty bio
make_request_inc_noreset(t) ==
    /\ pc[t] = "inc"
    /\ num_flying_wr' = num_flying_wr + 1
    /\ IF ExceedsCapacity(req[t]) \/ req[t].nsect = 0
       THEN /\ pc' = [pc EXCEPT ![t] = "endio"]
            /\ loc' = [loc EXCEPT ![t] = [NoLoc EXCEPT !.err = EIO]]
       ELSE /\ pc' = [pc EXCEPT ![t] = CopyEntry(req[t])]
            /\ loc' = [loc EXCEPT ![t] = [NoLoc EXCEPT !.err = ERR_NONE, !.pbn = PbnS(req[t])]]
    /\ UNCHANGED <<cfg, load, loadVars, emuVars, lifeVars, sumVars, pmVars, bufVars, lockVars, fl, reqVars, histVars, readVars>>
    /\ AccessTime(req[t])
    /\ SnapUpd

\* atomic_inc(&pmbd->num_flying_wr), the capacity check, the empty-bio
\* check, the update of the access time
make_request_inc(t) ==
    /\ pc[t] = "inc"
    /\ num_flying_wr' = num_flying_wr + 1
    /\ IF ExceedsCapacity(req[t])
       THEN /\ pc' = [pc EXCEPT ![t] = "endio"]
            /\ loc' = [loc EXCEPT ![t] = [NoLoc EXCEPT !.err = EIO]]
       ELSE IF req[t].nsect = 0
       THEN /\ pc' = [pc EXCEPT ![t] = "endio"]
            /\ loc' = [loc EXCEPT ![t] = [NoLoc EXCEPT !.err = ERR_NONE]]
       ELSE /\ pc' = [pc EXCEPT ![t] = CopyEntry(req[t])]
            /\ loc' = [loc EXCEPT ![t] = [NoLoc EXCEPT !.err = ERR_NONE, !.pbn = PbnS(req[t])]]
    /\ UNCHANGED <<cfg, load, loadVars, emuVars, lifeVars, sumVars, pmVars, bufVars, lockVars, fl, reqVars, histVars, readVars>>
    /\ AccessTime(req[t])
    /\ SnapUpd

\* bio_endio(bio, err): completion is signalled; a write that no other
\* write overlapped now defines the content of its sectors
make_request_endio(t) ==
    /\ pc[t] = "endio"
    /\ status' = [status EXCEPT ![t] = loc[t].err]
    /\ pc' = [pc EXCEPT ![t] = "dec"]
    /\ cands' = [s \in Sectors |-> IF s \in solo[t] THEN {SrcCell(req[t], s)} ELSE cands[s]]
    /\ solo' = [solo EXCEPT ![t] = {}]
    /\ UNCHANGED <<cfg, load, loadVars, emuVars, statVars, lifeVars, sumVars, pmVars, bufVars, lockVars, fl, num_flying_wr, loc, req, out, nreq, nsync,
                   bar_allowed, blk_w, rd_quiet, stable, snaps, readVars>>

\* atomic_dec(&pmbd->num_flying_wr); the request is over
make_request_dec(t) ==
    /\ pc[t] = "dec"
    /\ num_flying_wr' = num_flying_wr - 1
    /\ pc' = [pc EXCEPT ![t] = "idle"]
    /\ loc' = [loc EXCEPT ![t] = NoLoc]
    /\ req' = [req EXCEPT ![t] = NoReq]
    /\ out' = [out EXCEPT ![t] = <<>>]
    /\ status' = [status EXCEPT ![t] = "none"]
    /\ bar_allowed' = [bar_allowed EXCEPT ![t] = [s \in Sectors |-> {}]]
    /\ rd_quiet' = [rd_quiet EXCEPT ![t] = FALSE]
    /\ UNCHANGED <<cfg, load, loadVars, emuVars, statVars, lifeVars, sumVars, pmVars, bufVars, lockVars, fl, nreq, nsync, cands, solo, blk_w, stable, snaps, readVars>>

(***************************************************************************)
(* pmbd_write_barrier                                                      *)
(***************************************************************************)
\* spin_lock(&pmbd->wr_barrier_lock)
write_barrier_lock(t) ==
    /\ pc[t] = "wb_lock"
    /\ wr_barrier_lock = Free
    /\ wr_barrier_lock' = t
    /\ pc' = [pc EXCEPT ![t] = "wb_wait"]
    /\ UNCHANGED <<cfg, load, loadVars, emuVars, statVars, lifeVars, sumVars, pmVars, bufVars, pbi_lock, flush_lock, fl, num_flying_wr, loc, reqVars,
                   histVars, snaps, readVars>>

\* while (atomic_read(&pmbd->num_flying_wr) != 0) ;
write_barrier_wait(t) ==
    /\ pc[t] = "wb_wait"
    /\ num_flying_wr = 0
    /\ pc' = [pc EXCEPT ![t] = IF cfg.bufmode THEN "wb_flush" ELSE "wb_unlock"]
    /\ loc' = [loc EXCEPT ![t] = NoLoc]
    /\ UNCHANGED <<cfg, load, loadVars, emuVars, statVars, lifeVars, sumVars, pmVars, bufVars, lockVars, fl, num_flying_wr, reqVars, histVars, snaps, readVars>>

\* faulty variant of write_barrier_flush: the buffers are not drained
write_barrier_noflush(t) ==
    /\ pc[t] = "wb_flush"
    /\ pc' = [pc EXCEPT ![t] = "wb_unlock"]
    /\ loc' = [loc EXCEPT ![t] = NoLoc]
    /\ UNCHANGED <<cfg, load, loadVars, emuVars, statVars, lifeVars, sumVars, pmVars, bufVars, lockVars, fl, num_flying_wr, reqVars, histVars, snaps, readVars>>

\* for each buffer: pmbd_buffer_check_and_flush(buffer, num_blocks, CALLER_DESTROYER)
write_barrier_flush(t) ==
    /\ pc[t] = "wb_flush"
    /\ IF loc[t].i < num_buffers
       THEN /\ pc' = [pc EXCEPT ![t] = "cf"]
            /\ loc' = [loc EXCEPT ![t] = [NoLoc EXCEPT !.i = loc[t].i + 1, !.b = loc[t].i,
                                                       !.n = num_blocks,
                                                       !.caller = CALLER_DESTROYER,
                                                       !.ret = "wb_flush"]]
       ELSE /\ pc' = [pc EXCEPT ![t] = "wb_unlock"]
            /\ loc' = [loc EXCEPT ![t] = NoLoc]
    /\ UNCHANGED <<cfg, load, loadVars, emuVars, statVars, lifeVars, sumVars, pmVars, bufVars, lockVars, fl, num_flying_wr, reqVars, histVars, snaps, readVars>>

\* spin_unlock(&pmbd->wr_barrier_lock); the bio goes on to the write gate
write_barrier_unlock(t) ==
    /\ pc[t] = "wb_unlock"
    /\ wr_barrier_lock' = Free
    /\ pc' = [pc EXCEPT ![t] = "gate"]
    /\ UNCHANGED <<cfg, load, loadVars, emuVars, statVars, lifeVars, sumVars, pmVars, bufVars, pbi_lock, flush_lock, fl, num_flying_wr, loc, reqVars,
                   histVars, snaps, readVars>>

(***************************************************************************)
(* The flush engine: pmbd_buffer_check_and_flush, pmbd_buffer_flush,       *)
(* _pmbd_buffer_flush_range.  Process p runs it for buffer loc[p].b and    *)
(* goes back to loc[p].ret.                                                *)
(***************************************************************************)
Return(p) == [loc[p] EXCEPT !.fp = 0, !.n = 0, !.caller = CALLER_ALLOCATOR, !.ret = "none"]

pmbd_buffer_check_and_flush(p) ==
    /\ pc[p] = "cf"
    /\ loc[p].caller = CALLER_DESTROYER \/ BufferLockFree(loc[p].b)
    /\ LET b == loc[p].b
           skip == \/ loc[p].caller = CALLER_SYNCER /\ PMBD_BUFFER_IS_EMPTY(b)
                   \/ loc[p].caller = CALLER_ALLOCATOR /\ ~PMBD_BUFFER_IS_FULL(b)
       IN  IF skip
           THEN /\ pc' = [pc EXCEPT ![p] = loc[p].ret]
                /\ loc' = [loc EXCEPT ![p] = Return(p)]
           ELSE /\ pc' = [pc EXCEPT ![p] = "fl_lock"]
                /\ loc' = loc
    /\ UNCHANGED <<cfg, load, loadVars, emuVars, statVars, lifeVars, sumVars, pmVars, bufVars, lockVars, fl, num_flying_wr, reqVars, histVars, snaps, readVars>>

compare_bbi_sort_entries(a, b) == IF a.pbn < b.pbn THEN -1 ELSE IF a.pbn = b.pbn THEN 0 ELSE 1

RECURSIVE InsertEntry(_, _)
InsertEntry(e, sq) ==
    IF sq = <<>> THEN <<e>>
    ELSE IF compare_bbi_sort_entries(e, Head(sq)) <= 0 THEN <<e>> \o sq
    ELSE <<Head(sq)>> \o InsertEntry(e, Tail(sq))

\* sort(bbi_sort_buffer, num_scanned, ..., compare_bbi_sort_entries, ...)
RECURSIVE SortEntries(_)
SortEntries(sq) == IF sq = <<>> THEN <<>> ELSE InsertEntry(Head(sq), SortEntries(Tail(sq)))

\* faulty variant of ScanDirty: the scan does not stop at num_to_clean slots
RECURSIVE ScanDirty_all(_, _, _, _)
ScanDirty_all(b, i, acc, num_to_clean) ==
    LET bbn_e == PMBD_BUFFER_PRIO_POS(pos_clean[b])
    IN  IF ~(i # PMBD_BUFFER_NEXT_POS(bbn_e) \/ Len(acc) = 0) THEN [ok |-> TRUE, sort |-> acc]
        ELSE IF ~bbi_dirty[b][i] THEN [ok |-> FALSE, sort |-> acc]
        ELSE ScanDirty_all(b, PMBD_BUFFER_NEXT_POS(i), Append(acc, [pbn |-> bbi_pbn[b][i], bbn |-> i]), num_to_clean)

\* the scan loop of pmbd_buffer_flush from slot i on; ok = FALSE: a clean
\* slot was found in the dirty range (panic)
RECURSIVE ScanDirty(_, _, _, _)
ScanDirty(b, i, acc, num_to_clean) ==
    LET bbn_e == PMBD_BUFFER_PRIO_POS(pos_clean[b])
    IN  IF ~(i # PMBD_BUFFER_NEXT_POS(bbn_e) \/ Len(acc) = 0) THEN [ok |-> TRUE, sort |-> acc]
        ELSE IF ~bbi_dirty[b][i] THEN [ok |-> FALSE, sort |-> acc]
        ELSE LET acc1 == Append(acc, [pbn |-> bbi_pbn[b][i], bbn |-> i])
             IN  IF Len(acc1) >= num_to_clean THEN [ok |-> TRUE, sort |-> acc1]
                 ELSE ScanDirty(b, PMBD_BUFFER_NEXT_POS(i), acc1, num_to_clean)

\* index of the last entry of the run of contiguous PBNs that entry j ends so far
RECURSIVE RunEnd(_, _, _, _)
RunEnd(b, sq, j, last_pbn) ==
    IF j + 1 <= Len(sq) /\ bbi_pbn[b][sq[j + 1].bbn] = last_pbn + 1
    THEN RunEnd(b, sq, j + 1, last_pbn + 1)
    ELSE j

\* faulty variant of NextRun: the entries left are taken for one run
NextRun_all(b, sq, i) ==
    LET first_pbn == bbi_pbn[b][sq[i].bbn]
        last_pbn == first_pbn + (Len(sq) - i)
    IN  [first |-> first_pbn, last |-> IF last_pbn > NumPB - 1 THEN NumPB - 1 ELSE last_pbn, i |-> Len(sq) + 1]

\* the run of contiguous PBNs that starts at entry i of the sort buffer
NextRun(b, sq, i) ==
    LET first_pbn == bbi_pbn[b][sq[i].bbn]
        j == RunEnd(b, sq, i, first_pbn)
    IN  [first |-> first_pbn, last |-> first_pbn + (j - i), i |-> j + 1]

\* _pmbd_buffer_flush_range starts with pmbd_set_pages_rw when pages are protected
RangeEntry == IF PMBD_DEV_USE_WPMODE_PTE /\ PMBD_USE_WRITE_PROTECTION THEN "fl_rw" ELSE "fl_copy"

\* pmbd_buffer_flush up to the first _pmbd_buffer_flush_range: take
\* flush_lock, clamp the budget, scan the dirty range, sort, find the first run
pmbd_buffer_flush(p) ==
    /\ pc[p] = "fl_lock"
    /\ BufferLockFree(loc[p].b)
    /\ LET b == loc[p].b
           num_to_clean == IF loc[p].n > num_dirty[b] THEN num_dirty[b] ELSE loc[p].n
           scan == ScanDirty(b, pos_dirty[b], <<>>, num_to_clean)
           sorted == IF PMBD_DEV_USE_WPMODE_PTE THEN SortEntries(scan.sort) ELSE scan.sort
       IN  /\ flush_lock[b] = Free
           /\ IF PMBD_BUFFER_IS_EMPTY(b) \/ num_to_clean = 0
              THEN /\ pc' = [pc EXCEPT ![p] = loc[p].ret]
                   /\ loc' = [loc EXCEPT ![p] = Return(p)]
                   /\ UNCHANGED <<flush_lock, fl>>
              ELSE IF ~scan.ok
              THEN /\ pc' = [pc EXCEPT ![p] = "panic"]
                   /\ flush_lock' = [flush_lock EXCEPT ![b] = p]
                   /\ UNCHANGED <<loc, fl>>
              ELSE LET run == NextRun(b, sorted, 1)
                   IN  /\ flush_lock' = [flush_lock EXCEPT ![b] = p]
                       /\ fl' = [fl EXCEPT ![b] = [sort |-> sorted, i |-> run.i, first |-> run.first,
                                                   last |-> run.last, bbn_s |-> pos_dirty[b],
                                                   num_cleaned |-> 0]]
                       /\ loc' = [loc EXCEPT ![p].fp = run.first]
                       /\ pc' = [pc EXCEPT ![p] = RangeEntry]
    /\ UNCHANGED <<cfg, load, loadVars, emuVars, statVars, lifeVars, sumVars, pmVars, bufVars, pbi_lock, wr_barrier_lock, num_flying_wr, reqVars,
                   histVars, snaps, readVars>>

\* pmbd_set_pages_rw(pmbd, dst, bytes) over the run, before any block lock is taken
pmbd_buffer_flush_range_rw(p) ==
    /\ pc[p] = "fl_rw"
    /\ LET b == loc[p].b
       IN  page_rw' = [q \in PBNs |-> IF q \in fl[b].first .. fl[b].last THEN TRUE ELSE page_rw[q]]
    /\ pc' = [pc EXCEPT ![p] = "fl_copy"]
    /\ UNCHANGED <<cfg, load, loadVars, emuVars, statVars, lifeVars, sumVars, pm, bufVars, lockVars, fl, num_flying_wr, loc, reqVars, histVars, snaps, readVars>>

\* the slot of block pbn, as the content of the block's sectors
SlotOf(b, bbn, pbn) == [s \in SectorsOf(pbn) |-> buffer_space[b][SlotIdx(bbn, s - PBN_TO_SECTOR(pbn))]]

\* faulty variant of FlushCopy: nothing is copied
FlushCopy_none(b, bbn, pbn) == pm

\* faulty variant of FlushCopy: only the first sector of the slot is copied
FlushCopy_short(b, bbn, pbn) ==
    [s \in Sectors |-> IF s = PBN_TO_SECTOR(pbn) THEN SlotOf(b, bbn, pbn)[s] ELSE pm[s]]

\* memcpy_to_pmbd(pmbd, to, from, pb_size): PM after slot bbn went to block pbn
FlushCopy(b, bbn, pbn) ==
    [s \in Sectors |-> IF s \in SectorsOf(pbn) THEN SlotOf(b, bbn, pbn)[s] ELSE pm[s]]

\* first loop of _pmbd_buffer_flush_range, one block: lock it, copy a dirty
\* slot to PM, mark it clean; the lock is kept
pmbd_buffer_flush_range_copy(p) ==
    /\ pc[p] = "fl_copy"
    /\ LET b == loc[p].b
           pbn == loc[p].fp
           bbn == pbi_bbn[pbn]
       IN  /\ pbi_lock[pbn] = Free
           /\ pbi_lock' = [pbi_lock EXCEPT ![pbn] = p]
           /\ IF ~PMBD_BLOCK_IS_BUFFERED(pbn)
              THEN /\ pc' = [pc EXCEPT ![p] = "panic_range"]
                   /\ UNCHANGED <<pm, bbi_dirty, loc>>
              ELSE IF bbi_dirty[b][bbn] /\ \E s \in SectorsOf(pbn) : Faults(s)
              THEN /\ pc' = [pc EXCEPT ![p] = "oops"]
                   /\ UNCHANGED <<pm, bbi_dirty, loc>>
              ELSE /\ pm' = IF bbi_dirty[b][bbn] THEN FlushCopy(b, bbn, pbn) ELSE pm
                   /\ bbi_dirty' = [bbi_dirty EXCEPT ![b][bbn] = FALSE]
                   /\ pc' = [pc EXCEPT ![p] = IF pbn = fl[b].last THEN "fl_ro" ELSE "fl_copy"]
                   /\ loc' = [loc EXCEPT ![p].fp = IF pbn = fl[b].last THEN 0 ELSE pbn + 1]
    /\ UNCHANGED <<cfg, load, loadVars, emuVars, statVars, lifeVars, sumVars, page_rw, pbi_bbn, buffer_space, bbi_pbn, num_dirty, pos_dirty, pos_clean,
                   flush_lock, wr_barrier_lock, fl, num_flying_wr, reqVars, subVars, readVars>>
    /\ StableUpd
    /\ SnapUpd

\* faulty variant of pmbd_buffer_flush_range_done: the slots keep their pbn
pmbd_buffer_flush_range_done_bound(p) ==
    /\ pc[p] = "fl_ro"
    /\ LET b == loc[p].b
           run == fl[b].first .. fl[b].last
           slots == {pbi_bbn[q] : q \in run}
           more == fl[b].i <= Len(fl[b].sort)
       IN  /\ page_rw' = [q \in PBNs |-> IF q \in run /\ PMBD_DEV_USE_WPMODE_PTE /\ PMBD_USE_WRITE_PROTECTION
                                         THEN FALSE ELSE page_rw[q]]
           /\ bbi_pbn' = bbi_pbn
           /\ pbi_bbn' = [q \in PBNs |-> IF q \in run THEN PBI_UNBUFFERED ELSE pbi_bbn[q]]
           /\ pbi_lock' = [q \in PBNs |-> IF q \in run THEN Free ELSE pbi_lock[q]]
           /\ IF PMBD_USE_CHECKSUM
              THEN /\ fl' = [fl EXCEPT ![b].num_cleaned = @ + Cardinality(run)]
                   /\ loc' = [loc EXCEPT ![p].fp = fl[b].first]
                   /\ pc' = [pc EXCEPT ![p] = "fr_cal"]
              ELSE IF more
              THEN LET nxt == NextRun(b, fl[b].sort, fl[b].i)
                   IN  /\ fl' = [fl EXCEPT ![b].num_cleaned = @ + Cardinality(run), ![b].i = nxt.i,
                                           ![b].first = nxt.first, ![b].last = nxt.last]
                       /\ loc' = [loc EXCEPT ![p].fp = nxt.first]
                       /\ pc' = [pc EXCEPT ![p] = RangeEntry]
              ELSE /\ fl' = [fl EXCEPT ![b].num_cleaned = @ + Cardinality(run)]
                   /\ loc' = loc
                   /\ pc' = [pc EXCEPT ![p] = "fl_update"]
    /\ UNCHANGED <<cfg, load, loadVars, emuVars, statVars, lifeVars, sumVars, pm, buffer_space, bbi_dirty, num_dirty, pos_dirty, pos_clean, flush_lock,
                   wr_barrier_lock, num_flying_wr, reqVars, histVars, snaps, readVars>>

\* the rest of _pmbd_buffer_flush_range: pmbd_set_pages_ro over the run,
\* then unbind and unlock every block of the run; pmbd_checksum_on_write
\* follows if checksums are kept; back in pmbd_buffer_flush the next run is
\* found, or the scan is over
pmbd_buffer_flush_range_done(p) ==
    /\ pc[p] = "fl_ro"
    /\ LET b == loc[p].b
           run == fl[b].first .. fl[b].last
           slots == {pbi_bbn[q] : q \in run}
           more == fl[b].i <= Len(fl[b].sort)
       IN  /\ page_rw' = [q \in PBNs |-> IF q \in run /\ PMBD_DEV_USE_WPMODE_PTE /\ PMBD_USE_WRITE_PROTECTION
                                         THEN FALSE ELSE page_rw[q]]
           /\ bbi_pbn' = [bbi_pbn EXCEPT ![b] = [x \in BBNs |-> IF x \in slots THEN BBI_UNBUFFERED ELSE bbi_pbn[b][x]]]
           /\ pbi_bbn' = [q \in PBNs |-> IF q \in run THEN PBI_UNBUFFERED ELSE pbi_bbn[q]]
           /\ pbi_lock' = [q \in PBNs |-> IF q \in run THEN Free ELSE pbi_lock[q]]
           /\ IF PMBD_USE_CHECKSUM
              THEN /\ fl' = [fl EXCEPT ![b].num_cleaned = @ + Cardinality(run)]
                   /\ loc' = [loc EXCEPT ![p].fp = fl[b].first]
                   /\ pc' = [pc EXCEPT ![p] = "fr_cal"]
              ELSE IF more
              THEN LET nxt == NextRun(b, fl[b].sort, fl[b].i)
                   IN  /\ fl' = [fl EXCEPT ![b].num_cleaned = @ + Cardinality(run), ![b].i = nxt.i,
                                           ![b].first = nxt.first, ![b].last = nxt.last]
                       /\ loc' = [loc EXCEPT ![p].fp = nxt.first]
                       /\ pc' = [pc EXCEPT ![p] = RangeEntry]
              ELSE /\ fl' = [fl EXCEPT ![b].num_cleaned = @ + Cardinality(run)]
                   /\ loc' = loc
                   /\ pc' = [pc EXCEPT ![p] = "fl_update"]
    /\ UNCHANGED <<cfg, load, loadVars, emuVars, statVars, lifeVars, sumVars, pm, buffer_space, bbi_dirty, num_dirty, pos_dirty, pos_clean, flush_lock,
                   wr_barrier_lock, num_flying_wr, reqVars, histVars, snaps, readVars>>

\* faulty variant of pmbd_buffer_flush_update: num_dirty is not lowered
pmbd_buffer_flush_update_nodec(p) ==
    /\ pc[p] = "fl_update"
    /\ LET b == loc[p].b
       IN  /\ pos_dirty' = [pos_dirty EXCEPT ![b] = PMBD_BUFFER_NEXT_N_POS(fl[b].bbn_s, fl[b].num_cleaned)]
           /\ num_dirty' = num_dirty
           /\ flush_lock' = [flush_lock EXCEPT ![b] = Free]
           /\ fl' = [fl EXCEPT ![b] = NoFlush]
    /\ pc' = [pc EXCEPT ![p] = loc[p].ret]
    /\ loc' = [loc EXCEPT ![p] = Return(p)]
    /\ UNCHANGED <<cfg, load, loadVars, emuVars, statVars, lifeVars, sumVars, pmVars, pbi_bbn, buffer_space, bbi_pbn, bbi_dirty, pos_clean, pbi_lock,
                   wr_barrier_lock, num_flying_wr, reqVars, histVars, snaps, readVars>>

\* faulty variant of pmbd_buffer_flush_update: pos_dirty is not moved forward
pmbd_buffer_flush_update_nomove(p) ==
    /\ pc[p] = "fl_update"
    /\ LET b == loc[p].b
       IN  /\ pos_dirty' = pos_dirty
           /\ num_dirty' = [num_dirty EXCEPT ![b] = @ - fl[b].num_cleaned]
           /\ flush_lock' = [flush_lock EXCEPT ![b] = Free]
           /\ fl' = [fl EXCEPT ![b] = NoFlush]
    /\ pc' = [pc EXCEPT ![p] = loc[p].ret]
    /\ loc' = [loc EXCEPT ![p] = Return(p)]
    /\ UNCHANGED <<cfg, load, loadVars, emuVars, statVars, lifeVars, sumVars, pmVars, pbi_bbn, buffer_space, bbi_pbn, bbi_dirty, pos_clean, pbi_lock,
                   wr_barrier_lock, num_flying_wr, reqVars, histVars, snaps, readVars>>

\* the end of pmbd_buffer_flush: move pos_dirty, lower num_dirty, drop flush_lock
pmbd_buffer_flush_update(p) ==
    /\ pc[p] = "fl_update"
    /\ BufferLockFree(loc[p].b)
    /\ LET b == loc[p].b
       IN  /\ pos_dirty' = [pos_dirty EXCEPT ![b] = PMBD_BUFFER_NEXT_N_POS(fl[b].bbn_s, fl[b].num_cleaned)]
           /\ num_dirty' = [num_dirty EXCEPT ![b] = @ - fl[b].num_cleaned]
           /\ flush_lock' = [flush_lock EXCEPT ![b] = Free]
           /\ fl' = [fl EXCEPT ![b] = NoFlush]
    /\ pc' = [pc EXCEPT ![p] = loc[p].ret]
    /\ loc' = [loc EXCEPT ![p] = Return(p)]
    /\ UNCHANGED <<cfg, load, loadVars, emuVars, statVars, lifeVars, sumVars, pmVars, pbi_bbn, buffer_space, bbi_pbn, bbi_dirty, pos_clean, pbi_lock,
                   wr_barrier_lock, num_flying_wr, reqVars, histVars, snaps, readVars>>

(***************************************************************************)
(* Buffered write: copy_to_pmbd_buffered, pmbd_buffer_alloc_block          *)
(***************************************************************************)
do_fua(r) == r.fua /\ cfg.fua

\* cell idx of the source page of write r
Src(r, idx) == <<r.val, idx>>

\* memcpy(to, from, size) into slot bbn of buffer b: in-block sectors
\* sect_s .. sect_e are taken from the source page at offset from
SlotWrite(space, bbn, r, sect_s, sect_e, from) ==
    [x \in SlotIdxs |->
        IF x \in {SlotIdx(bbn, o) : o \in sect_s .. sect_e}
        THEN Src(r, from + (x - SlotIdx(bbn, sect_s)))
        ELSE space[x]]

\* faulty variant of Hydrate: a newly bound slot is never filled from PM
Hydrate_skip(space, bbn, pbn, size) == space

\* memcpy_from_pmbd(slot, PMBD_BLOCK_VADDR(pbn), pb_size) when the write
\* does not cover the whole block
Hydrate(space, bbn, pbn, size) ==
    IF size < SectPerPB
    THEN [x \in SlotIdxs |->
            IF x \in {SlotIdx(bbn, o) : o \in Offs}
            THEN pm[PBN_TO_SECTOR(pbn) + (x - SlotIdx(bbn, 0))]
            ELSE space[x]]
    ELSE space

\* faulty variant of AfterBuffered: an FUA write stays in the buffer
AfterBuffered_nofua(r) == "endio"

\* copy_to_pmbd on a buffered device: after copy_to_pmbd_buffered an FUA
\* write goes on to copy_to_pmbd_unbuffered
AfterBuffered(r) == IF do_fua(r) THEN "ub_lock" ELSE "endio"

\* faulty variant of BufWriteNext: the source pointer is not advanced
BufWriteNext_samefrom(t, size) ==
    LET r == req[t]
    IN  IF loc[t].pbn = PbnE(r)
        THEN /\ pc' = [pc EXCEPT ![t] = AfterBuffered(r)]
             /\ loc' = [loc EXCEPT ![t].pbn = PbnS(r), ![t].from = 0]
        ELSE /\ pc' = [pc EXCEPT ![t] = "wr_lock"]
             /\ loc' = [loc EXCEPT ![t].pbn = @ + 1]

\* after block pbn of a buffered write: the next block (from += size), or
\* the end of copy_to_pmbd_buffered
BufWriteNext(t, size) ==
    LET r == req[t]
    IN  IF loc[t].pbn = PbnE(r)
        THEN /\ pc' = [pc EXCEPT ![t] = AfterBuffered(r)]
             /\ loc' = [loc EXCEPT ![t].pbn = PbnS(r), ![t].from = 0]
        ELSE /\ pc' = [pc EXCEPT ![t] = "wr_lock"]
             /\ loc' = [loc EXCEPT ![t].pbn = @ + 1, ![t].from = @ + size]

\* one block of copy_to_pmbd_buffered: lock the block and look it up; a
\* buffered block is written and unlocked at once, an unbuffered one goes
\* to the allocator with its lock held
copy_to_pmbd_buffered(t) ==
    /\ pc[t] = "wr_lock"
    /\ LET r == req[t]
           pbn == loc[t].pbn
           b == PBN_TO_PMBD_BUFFER_ID(pbn)
           sect_s == SectS(r, pbn)
           sect_e == SectE(r, pbn)
           size == sect_e - sect_s + 1
       IN  /\ pbi_lock[pbn] = Free
           /\ IF _pmbd_buffer_lookup(pbn)
              THEN /\ buffer_space' = [buffer_space EXCEPT ![b] =
                                         SlotWrite(@, pbi_bbn[pbn], r, sect_s, sect_e, loc[t].from)]
                   /\ bbi_dirty' = [bbi_dirty EXCEPT ![b][pbi_bbn[pbn]] = TRUE]
                   /\ BufWriteNext(t, size)
                   /\ UNCHANGED pbi_lock
              ELSE /\ pbi_lock' = [pbi_lock EXCEPT ![pbn] = t]
                   /\ pc' = [pc EXCEPT ![t] = "wr_alloc"]
                   /\ loc' = [loc EXCEPT ![t].b = b]
                   /\ UNCHANGED <<buffer_space, bbi_dirty>>
    /\ UNCHANGED <<cfg, load, loadVars, emuVars, statVars, lifeVars, sumVars, pmVars, pbi_bbn, bbi_pbn, num_dirty, pos_dirty, pos_clean, flush_lock,
                   wr_barrier_lock, fl, num_flying_wr, reqVars, histVars, snaps, readVars>>

\* faulty variant of pmbd_buffer_alloc_block: pos_clean is not advanced
pmbd_buffer_alloc_block_nopos(t) ==
    /\ pc[t] = "wr_alloc"
    /\ LET r == req[t]
           pbn == loc[t].pbn
           b == loc[t].b
           sect_s == SectS(r, pbn)
           sect_e == SectE(r, pbn)
           size == sect_e - sect_s + 1
           pos == pos_clean[b]
       IN  IF PMBD_BUFFER_IS_FULL(b)
           THEN /\ pc' = [pc EXCEPT ![t] = "cf"]
                /\ loc' = [loc EXCEPT ![t].n = BatchSize, ![t].caller = CALLER_ALLOCATOR,
                                      ![t].ret = "wr_alloc"]
                /\ UNCHANGED <<bufVars, pbi_lock>>
           ELSE /\ pos_clean' = pos_clean
                /\ num_dirty' = [num_dirty EXCEPT ![b] = @ + 1]
                /\ bbi_dirty' = [bbi_dirty EXCEPT ![b][pos] = TRUE]
                /\ bbi_pbn' = [bbi_pbn EXCEPT ![b][pos] = pbn]
                /\ pbi_bbn' = [pbi_bbn EXCEPT ![pbn] = pos]
                /\ buffer_space' = [buffer_space EXCEPT ![b] =
                       SlotWrite(Hydrate(@, pos, pbn, size), pos, r, sect_s, sect_e, loc[t].from)]
                /\ pbi_lock' = [pbi_lock EXCEPT ![pbn] = Free]
                /\ BufWriteNext(t, size)
                /\ UNCHANGED pos_dirty
    /\ UNCHANGED <<cfg, load, loadVars, emuVars, statVars, lifeVars, sumVars, pmVars, flush_lock, wr_barrier_lock, fl, num_flying_wr, reqVars, histVars,
                   snaps, readVars>>

\* faulty variant of pmbd_buffer_alloc_block: the reserved slot is not marked dirty
pmbd_buffer_alloc_block_clean(t) ==
    /\ pc[t] = "wr_alloc"
    /\ LET r == req[t]
           pbn == loc[t].pbn
           b == loc[t].b
           sect_s == SectS(r, pbn)
           sect_e == SectE(r, pbn)
           size == sect_e - sect_s + 1
           pos == pos_clean[b]
       IN  IF PMBD_BUFFER_IS_FULL(b)
           THEN /\ pc' = [pc EXCEPT ![t] = "cf"]
                /\ loc' = [loc EXCEPT ![t].n = BatchSize, ![t].caller = CALLER_ALLOCATOR,
                                      ![t].ret = "wr_alloc"]
                /\ UNCHANGED <<bufVars, pbi_lock>>
           ELSE /\ pos_clean' = [pos_clean EXCEPT ![b] = PMBD_BUFFER_NEXT_POS(pos)]
                /\ num_dirty' = [num_dirty EXCEPT ![b] = @ + 1]
                /\ bbi_dirty' = bbi_dirty
                /\ bbi_pbn' = [bbi_pbn EXCEPT ![b][pos] = pbn]
                /\ pbi_bbn' = [pbi_bbn EXCEPT ![pbn] = pos]
                /\ buffer_space' = [buffer_space EXCEPT ![b] =
                       SlotWrite(Hydrate(@, pos, pbn, size), pos, r, sect_s, sect_e, loc[t].from)]
                /\ pbi_lock' = [pbi_lock EXCEPT ![pbn] = Free]
                /\ BufWriteNext(t, size)
                /\ UNCHANGED pos_dirty
    /\ UNCHANGED <<cfg, load, loadVars, emuVars, statVars, lifeVars, sumVars, pmVars, flush_lock, wr_barrier_lock, fl, num_flying_wr, reqVars, histVars,
                   snaps, readVars>>

\* pmbd_buffer_alloc_block with the pbi->lock held: a full buffer is
\* flushed by the caller itself (batch_size slots) and checked again;
\* otherwise the slot at pos_clean is bound, filled from PM for a partial
\* write, written, and the block is unlocked
pmbd_buffer_alloc_block(t) ==
    /\ pc[t] = "wr_alloc"
    /\ BufferLockFree(loc[t].b)
    /\ LET r == req[t]
           pbn == loc[t].pbn
           b == loc[t].b
           sect_s == SectS(r, pbn)
           sect_e == SectE(r, pbn)
           size == sect_e - sect_s + 1
           pos == pos_clean[b]
       IN  IF PMBD_BUFFER_IS_FULL(b)
           THEN /\ pc' = [pc EXCEPT ![t] = "cf"]
                /\ loc' = [loc EXCEPT ![t].n = BatchSize, ![t].caller = CALLER_ALLOCATOR,
                                      ![t].ret = "wr_alloc"]
                /\ UNCHANGED <<bufVars, pbi_lock>>
           ELSE /\ pos_clean' = [pos_clean EXCEPT ![b] = PMBD_BUFFER_NEXT_POS(pos)]
                /\ num_dirty' = [num_dirty EXCEPT ![b] = @ + 1]
                /\ bbi_dirty' = [bbi_dirty EXCEPT ![b][pos] = TRUE]
                /\ bbi_pbn' = [bbi_pbn EXCEPT ![b][pos] = pbn]
                /\ pbi_bbn' = [pbi_bbn EXCEPT ![pbn] = pos]
                /\ buffer_space' = [buffer_space EXCEPT ![b] =
                       SlotWrite(Hydrate(@, pos, pbn, size), pos, r, sect_s, sect_e, loc[t].from)]
                /\ pbi_lock' = [pbi_lock EXCEPT ![pbn] = Free]
                /\ BufWriteNext(t, size)
                /\ UNCHANGED pos_dirty
    /\ UNCHANGED <<cfg, load, loadVars, emuVars, statVars, lifeVars, sumVars, pmVars, flush_lock, wr_barrier_lock, fl, num_flying_wr, reqVars, histVars,
                   snaps, readVars>>

(***************************************************************************)
(* Buffered read: copy_from_pmbd_buffered                                  *)
(***************************************************************************)
\* the cells appended to the destination page are legitimate contents of
\* the sectors the page positions stand for
ReadOk(t, cells) ==
    \A j \in 1 .. Len(cells) : cells[j] \in cands[req[t].sector + Len(out[t]) + j - 1]

\* a copy of block p made in one piece sees part of an unlocked direct write
TornAtomic(t, p) ==
    \E w \in Threads \ {t} :
        /\ pc[w] = "ub_copy"
        /\ LET C == RangeOf(req[t]) \cap RangeOf(req[w]) \cap SectorsOf(p)
               done == {s \in C : s - req[w].sector < loc[w].k}
           IN  done # {} /\ done # C

\* one block: lock, look up, copy from the slot or from PM, unlock
copy_from_pmbd_buffered(t) ==
    /\ pc[t] = "rd_buf"
    /\ LET r == req[t]
           pbn == loc[t].pbn
           sect_s == SectS(r, pbn)
           sect_e == SectE(r, pbn)
           cells == [j \in 1 .. (sect_e - sect_s + 1) |-> Logical(PBN_TO_SECTOR(pbn) + sect_s + j - 1)]
       IN  /\ pbi_lock[pbn] = Free
           /\ out' = [out EXCEPT ![t] = @ \o cells]
           /\ rt_ok' = (rt_ok /\ ReadOk(t, cells))
           /\ torn' = (torn \/ TornAtomic(t, pbn))
           /\ IF PMBD_USE_CHECKSUM /\ ~PMBD_BLOCK_IS_BUFFERED(pbn)
              THEN \E b \in pmbd_checksum_on_read(t, {pbn}) : ck_log' = (ck_log \/ b)
              ELSE ck_log' = ck_log
           /\ IF pbn = PbnE(r)
              THEN /\ pc' = [pc EXCEPT ![t] = "endio"]
                   /\ loc' = [loc EXCEPT ![t].pbn = 0]
              ELSE /\ pc' = pc
                   /\ loc' = [loc EXCEPT ![t].pbn = @ + 1]
    /\ UNCHANGED <<cfg, load, loadVars, emuVars, statVars, lifeVars, checksum_space, pmVars, bufVars, lockVars, fl, num_flying_wr, req, status, nreq,
                   nsync, histVars, snaps>>

(***************************************************************************)
(* Direct PM access: pmbd_lock_on_access, copy_to_pmbd_unbuffered,         *)
(* copy_from_pmbd_unbuffered.  A copy made while every block of the range  *)
(* is locked is one step; without the locks it goes one sector per step.   *)
(***************************************************************************)
PMBD_USE_LOCK == cfg.lock

Protected == PMBD_DEV_USE_WPMODE_PTE /\ PMBD_USE_WRITE_PROTECTION

\* the step after pmbd_lock_on_access
AfterLock(t) == IF pc[t] = "ub_lock" THEN (IF Protected THEN "ub_rw" ELSE "ub_copy") ELSE "ubr_copy"

\* faulty variant of pmbd_lock_on_access: no block is locked
pmbd_lock_on_access_none(t) ==
    /\ pc[t] \in {"ub_lock", "ubr_lock"}
    /\ pc' = [pc EXCEPT ![t] = AfterLock(t)]
    /\ UNCHANGED <<cfg, load, loadVars, emuVars, statVars, lifeVars, sumVars, pmVars, bufVars, lockVars, fl, num_flying_wr, loc, reqVars,
                   histVars, readVars>>
    /\ SnapUpd

\* faulty variant of pmbd_lock_on_access: only the first block is locked
pmbd_lock_on_access_first(t) ==
    /\ pc[t] \in {"ub_lock", "ubr_lock"}
    /\ IF PMBD_USE_LOCK
       THEN /\ pbi_lock[PbnS(req[t])] = Free
            /\ pbi_lock' = [pbi_lock EXCEPT ![PbnS(req[t])] = t]
       ELSE UNCHANGED pbi_lock
    /\ pc' = [pc EXCEPT ![t] = AfterLock(t)]
    /\ loc' = [loc EXCEPT ![t].pbn = PbnS(req[t])]
    /\ UNCHANGED <<cfg, load, loadVars, emuVars, statVars, lifeVars, sumVars, pmVars, bufVars, flush_lock, wr_barrier_lock, fl, num_flying_wr, reqVars,
                   histVars, readVars>>
    /\ SnapUpd

\* lock the blocks of the range in ascending order, if the lock option is on
pmbd_lock_on_access(t) ==
    /\ pc[t] \in {"ub_lock", "ubr_lock"}
    /\ IF PMBD_USE_LOCK
       THEN /\ pbi_lock[loc[t].pbn] = Free
            /\ pbi_lock' = [pbi_lock EXCEPT ![loc[t].pbn] = t]
            /\ IF loc[t].pbn = PbnE(req[t])
               THEN /\ pc' = [pc EXCEPT ![t] = AfterLock(t)]
                    /\ loc' = [loc EXCEPT ![t].pbn = PbnS(req[t])]
               ELSE /\ pc' = pc
                    /\ loc' = [loc EXCEPT ![t].pbn = @ + 1]
       ELSE /\ pc' = [pc EXCEPT ![t] = AfterLock(t)]
            /\ UNCHANGED <<pbi_lock, loc>>
    /\ UNCHANGED <<cfg, load, loadVars, emuVars, statVars, lifeVars, sumVars, pmVars, bufVars, flush_lock, wr_barrier_lock, fl, num_flying_wr, reqVars,
                   histVars, readVars>>
    /\ SnapUpd

\* faulty variant of pmbd_unlock_on_access: only the first block is unlocked
pmbd_unlock_on_access_first(t) ==
    [q \in PBNs |-> IF PMBD_USE_LOCK /\ q = PbnS(req[t]) THEN Free ELSE pbi_lock[q]]

\* spin_unlock of every block of the range, if the lock option is on
pmbd_unlock_on_access(t) ==
    [q \in PBNs |-> IF PMBD_USE_LOCK /\ q \in PbnS(req[t]) .. PbnE(req[t]) THEN Free ELSE pbi_lock[q]]

\* after the copy, the protection and the verification of
\* copy_to_pmbd_unbuffered: pmbd_checksum_on_write if checksums are kept,
\* then pmbd_unlock_on_access
WriteEnd == IF PMBD_USE_CHECKSUM THEN "ub_cal" ELSE "endio"

WriteEndLocks(t) == IF PMBD_USE_CHECKSUM THEN pbi_lock ELSE pmbd_unlock_on_access(t)

\* pmbd_set_pages_rw(pmbd, dst, bytes) of copy_to_pmbd_unbuffered
pmbd_set_pages_rw(t) ==
    /\ pc[t] = "ub_rw"
    /\ page_rw' = [q \in PBNs |-> IF q \in PbnS(req[t]) .. PbnE(req[t]) THEN TRUE ELSE page_rw[q]]
    /\ pc' = [pc EXCEPT ![t] = "ub_copy"]
    /\ UNCHANGED <<cfg, load, loadVars, emuVars, statVars, lifeVars, sumVars, pm, bufVars, lockVars, fl, num_flying_wr, loc, reqVars, histVars, snaps, readVars>>

\* source-page indexes the next copy step moves
StepIdxs(t) == IF HoldsRange(t) THEN loc[t].k .. (req[t].nsect - 1) ELSE {loc[t].k}

Min(S) == CHOOSE x \in S : \A y \in S : x <= y

\* memcpy_to_pmbd(pmbd, dst, src, bytes) of copy_to_pmbd_unbuffered; a store
\* to a read-only page ends the thread in a kernel oops
memcpy_to_pmbd(t) ==
    /\ pc[t] = "ub_copy"
    /\ LET r == req[t]
           idxs == StepIdxs(t)
           bad == {i \in idxs : Faults(r.sector + i)}
           wr == IF bad = {} THEN idxs ELSE {i \in idxs : i < Min(bad)}
           k1 == loc[t].k + Cardinality(wr)
       IN  /\ pm' = [s \in Sectors |-> IF (s - r.sector) \in wr THEN Src(r, s - r.sector) ELSE pm[s]]
           /\ IF bad # {}
              THEN /\ pc' = [pc EXCEPT ![t] = "oops"]
                   /\ loc' = [loc EXCEPT ![t].k = k1]
                   /\ UNCHANGED pbi_lock
              ELSE IF k1 < r.nsect
              THEN /\ pc' = pc
                   /\ loc' = [loc EXCEPT ![t].k = k1]
                   /\ UNCHANGED pbi_lock
              ELSE IF Protected
              THEN /\ pc' = [pc EXCEPT ![t] = "ub_ro"]
                   /\ loc' = [loc EXCEPT ![t].k = 0]
                   /\ UNCHANGED pbi_lock
              ELSE /\ pc' = [pc EXCEPT ![t] = WriteEnd]
                   /\ loc' = [loc EXCEPT ![t].k = 0, ![t].pbn = 0, ![t].fp = IF PMBD_USE_CHECKSUM THEN PbnS(r) ELSE @]
                   /\ pbi_lock' = WriteEndLocks(t)
    /\ UNCHANGED <<cfg, load, loadVars, emuVars, statVars, lifeVars, sumVars, page_rw, bufVars, flush_lock, wr_barrier_lock, fl, num_flying_wr, reqVars,
                   subVars, readVars>>
    /\ StableUpd
    /\ SnapUpd

\* faulty variant of pmbd_set_pages_ro: the pages stay writable
pmbd_set_pages_ro_skip(t) ==
    /\ pc[t] = "ub_ro"
    /\ pbi_lock' = WriteEndLocks(t)
    /\ pc' = [pc EXCEPT ![t] = WriteEnd]
    /\ loc' = [loc EXCEPT ![t].pbn = 0, ![t].fp = IF PMBD_USE_CHECKSUM THEN PbnS(req[t]) ELSE @]
    /\ UNCHANGED <<cfg, load, loadVars, emuVars, statVars, lifeVars, sumVars, pmVars, bufVars, flush_lock, wr_barrier_lock, fl, num_flying_wr, reqVars,
                   histVars, snaps, readVars>>

\* pmbd_set_pages_ro(pmbd, dst, bytes) of copy_to_pmbd_unbuffered, then
\* pmbd_unlock_on_access
pmbd_set_pages_ro(t) ==
    /\ pc[t] = "ub_ro"
    /\ page_rw' = [q \in PBNs |-> IF q \in PbnS(req[t]) .. PbnE(req[t]) THEN FALSE ELSE page_rw[q]]
    /\ pbi_lock' = WriteEndLocks(t)
    /\ pc' = [pc EXCEPT ![t] = WriteEnd]
    /\ loc' = [loc EXCEPT ![t].pbn = 0, ![t].fp = IF PMBD_USE_CHECKSUM THEN PbnS(req[t]) ELSE @]
    /\ UNCHANGED <<cfg, load, loadVars, emuVars, statVars, lifeVars, sumVars, pm, bufVars, flush_lock, wr_barrier_lock, fl, num_flying_wr, reqVars,
                   histVars, snaps, readVars>>

\* the read of block p by thread t, finished by this step, matches none of
\* the contents its part of the block had between writes while it was read
TornStepped(t, p, outx) ==
    LET seg == [s \in RangeOf(req[t]) \cap SectorsOf(p) |-> outx[s - req[t].sector + 1]]
    IN  seg \notin snaps[t]

\* memcpy_from_pmbd(pmbd, dst, src, bytes) of copy_from_pmbd_unbuffered,
\* then pmbd_unlock_on_access
copy_from_pmbd_unbuffered(t) ==
    /\ pc[t] = "ubr_copy"
    /\ LET r == req[t]
           whole == HoldsRange(t)
           idxs == StepIdxs(t)
           cells == [j \in 1 .. Cardinality(idxs) |-> pm[r.sector + loc[t].k + j - 1]]
           k1 == loc[t].k + Cardinality(idxs)
           s == r.sector + loc[t].k
           p == SECTOR_TO_PBN(s)
           outx == out[t] \o cells
       IN  /\ out' = [out EXCEPT ![t] = outx]
           /\ rt_ok' = (rt_ok /\ ReadOk(t, cells))
           /\ torn' = (torn \/ IF whole THEN \E q \in PbnS(r) .. PbnE(r) : TornAtomic(t, q)
                                ELSE /\ (k1 = r.nsect \/ SECTOR_TO_PBN(s + 1) # p)
                                     /\ TornStepped(t, p, outx))
           /\ IF PMBD_USE_CHECKSUM /\ loc[t].k = 0
              THEN \E b \in pmbd_checksum_on_read(t, PbnS(r) .. PbnE(r)) : ck_log' = (ck_log \/ b)
              ELSE ck_log' = ck_log
           /\ IF k1 < r.nsect
              THEN /\ pc' = pc
                   /\ loc' = [loc EXCEPT ![t].k = k1]
                   /\ UNCHANGED pbi_lock
              ELSE /\ pc' = [pc EXCEPT ![t] = "endio"]
                   /\ loc' = [loc EXCEPT ![t].k = 0, ![t].pbn = 0]
                   /\ pbi_lock' = pmbd_unlock_on_access(t)
    /\ UNCHANGED <<cfg, load, loadVars, emuVars, statVars, lifeVars, checksum_space, pmVars, bufVars, flush_lock, wr_barrier_lock, fl,
                   num_flying_wr, req, status, nreq, nsync, histVars>>
    /\ SnapUpd

(***************************************************************************)
(* pmbd_checksum_on_write, one page after the other: pmbd_cal_checksum,    *)
(* then the store into checksum_space.  It is called at the end of         *)
(* copy_to_pmbd_unbuffered, inside the block locks, and at the end of      *)
(* _pmbd_buffer_flush_range, after the block locks of the run were dropped.*)
(***************************************************************************)
\* PMBD_CHECKSUM_T checksum = pmbd_cal_checksum(pmbd, data)
pmbd_checksum_on_write_cal(p) ==
    /\ pc[p] \in {"ub_cal", "fr_cal"}
    /\ \E c \in pmbd_cal_checksum(p, loc[p].fp) : loc' = [loc EXCEPT ![p].ck = c]
    /\ pc' = [pc EXCEPT ![p] = IF pc[p] = "ub_cal" THEN "ub_st" ELSE "fr_st"]
    /\ UNCHANGED <<cfg, load, loadVars, emuVars, statVars, lifeVars, sumVars, pmVars, bufVars, lockVars, fl, num_flying_wr, reqVars,
                   histVars, snaps, readVars>>

\* memcpy(chk, &checksum, sizeof(PMBD_CHECKSUM_T)), then the next page; after
\* the last page the direct writer unlocks its blocks, the flusher is back
\* in pmbd_buffer_flush
pmbd_checksum_on_write(p) ==
    /\ pc[p] \in {"ub_st", "fr_st"}
    /\ checksum_space' = [checksum_space EXCEPT ![loc[p].fp] = loc[p].ck]
    /\ IF pc[p] = "ub_st"
       THEN /\ fl' = fl
            /\ IF loc[p].fp < PbnE(req[p])
               THEN /\ pc' = [pc EXCEPT ![p] = "ub_cal"]
                    /\ loc' = [loc EXCEPT ![p].fp = @ + 1, ![p].ck = {}]
                    /\ pbi_lock' = pbi_lock
               ELSE /\ pc' = [pc EXCEPT ![p] = "endio"]
                    /\ loc' = [loc EXCEPT ![p].fp = 0, ![p].ck = {}]
                    /\ pbi_lock' = pmbd_unlock_on_access(p)
       ELSE LET b == loc[p].b
            IN  /\ pbi_lock' = pbi_lock
                /\ IF loc[p].fp < fl[b].last
                   THEN /\ pc' = [pc EXCEPT ![p] = "fr_cal"]
                        /\ loc' = [loc EXCEPT ![p].fp = @ + 1, ![p].ck = {}]
                        /\ fl' = fl
                   ELSE IF fl[b].i <= Len(fl[b].sort)
                   THEN LET nxt == NextRun(b, fl[b].sort, fl[b].i)
                        IN  /\ fl' = [fl EXCEPT ![b].i = nxt.i, ![b].first = nxt.first, ![b].last = nxt.last]
                            /\ loc' = [loc EXCEPT ![p].fp = nxt.first, ![p].ck = {}]
                            /\ pc' = [pc EXCEPT ![p] = RangeEntry]
                   ELSE /\ fl' = fl
                        /\ loc' = [loc EXCEPT ![p].fp = 0, ![p].ck = {}]
                        /\ pc' = [pc EXCEPT ![p] = "fl_update"]
    /\ UNCHANGED <<cfg, load, loadVars, emuVars, statVars, lifeVars, ck_log, pmVars, bufVars, flush_lock, wr_barrier_lock,
                   num_flying_wr, reqVars, histVars, snaps, readVars>>

(***************************************************************************)
(* pmbd_syncer_worker of buffer loc[p].b                                   *)
(***************************************************************************)
\* unsigned 32-bit values are kept as two 16-bit halves <<high, low>>.
\* (a - b) mod 2^32 of two unsigned values below 2^31:
U32Sub(a, b) ==
    IF a >= b
    THEN <<(a - b) \div 65536, (a - b) % 65536>>
    ELSE <<65535 - ((b - a - 1) \div 65536), 65535 - ((b - a - 1) % 65536)>>

\* jiffies_to_usecs(j): (USEC_PER_SEC / HZ) * j in an unsigned int
jiffies_to_usecs(j) ==
    <<(j[1] * UsecPerJiffy + (j[2] * UsecPerJiffy) \div 65536) % 65536, (j[2] * UsecPerJiffy) % 65536>>

PMBD_DEV_IS_IDLE(interval) == interval[1] > 0 \/ interval[2] > PMBD_BUFFER_FLUSH_IDLE_TIMEOUT

\* pmbd_device_is_idle once now_jiffies and last_jiffies are read: the
\* interval if the device counts as idle, else 0
pmbd_device_is_idle(now_jiffies, last_jiffies) ==
    LET interval == jiffies_to_usecs(U32Sub(now_jiffies, last_jiffies))
    IN  IF PMBD_DEV_IS_IDLE(interval) THEN interval ELSE <<0, 0>>

\* what pmbd_device_is_idle may return to the syncer p: where the tick
\* counter is not followed, any answer
IdleAnswers(p) ==
    IF Timed
    THEN {pmbd_device_is_idle(loc[p].now_jiffies, last_access_jiffies)}
    ELSE {<<0, 0>>, <<0, PMBD_BUFFER_FLUSH_IDLE_TIMEOUT + 1>>}

\* the timer interrupt
jiffies_tick ==
    /\ Timed
    /\ jiffies < MaxJiffies
    /\ jiffies' = jiffies + 1
    /\ UNCHANGED <<cfg, load, loadVars, emuVars, last_access_jiffies, lifeVars, sumVars, pmVars, bufVars, lockVars, fl, num_flying_wr, pc, loc,
                   reqVars, histVars, snaps, readVars>>

\* the head of a round where the tick counter is followed:
\* spin_lock(&buffer->buffer_lock), the test of the high watermark (made
\* again by pmbd_syncer_worker under the same lock), now_jiffies = jiffies
pmbd_syncer_now(p) ==
    /\ Timed
    /\ pc[p] = "sy_check"
    /\ nsync < load.maxsync
    /\ pc' = [pc EXCEPT ![p] = "sy_now"]
    /\ loc' = [loc EXCEPT ![p].now_jiffies = jiffies]
    /\ UNCHANGED <<cfg, load, loadVars, emuVars, statVars, lifeVars, sumVars, pmVars, bufVars, lockVars, fl, num_flying_wr, reqVars,
                   histVars, snaps, readVars>>

\* one round of the loop that decides to flush: the high watermark is hit,
\* or the device is idle (pmbd_device_is_idle) above the low one; a round
\* that does not flush sleeps and changes nothing
pmbd_syncer_worker(p) ==
    /\ pc[p] = (IF Timed THEN "sy_now" ELSE "sy_check")
    /\ nsync < load.maxsync
    /\ nsync' = IF Endless THEN nsync ELSE nsync + 1
    /\ \E idle_usec \in IdleAnswers(p) :
          IF PMBD_BUFFER_ABOVE_HW(loc[p].b) \/ (idle_usec # <<0, 0>> /\ PMBD_BUFFER_ABOVE_LW(loc[p].b))
          THEN /\ pc' = [pc EXCEPT ![p] = "cf"]
               /\ loc' = [loc EXCEPT ![p].n = BatchSize, ![p].caller = CALLER_SYNCER, ![p].ret = "sy_again",
                                     ![p].idle_usec = IF Timed THEN idle_usec ELSE @]
          ELSE /\ Timed
               /\ pc' = [pc EXCEPT ![p] = "sy_check"]
               /\ loc' = [loc EXCEPT ![p].idle_usec = idle_usec]
    /\ UNCHANGED <<cfg, load, loadVars, emuVars, statVars, lifeVars, sumVars, pmVars, bufVars, lockVars, fl, num_flying_wr, req, out, status, nreq,
                   histVars, snaps, readVars>>

\* after a flush: repeat while the buffer is above the low watermark
pmbd_syncer_repeat(p) ==
    /\ pc[p] = "sy_again"
    /\ IF PMBD_BUFFER_ABOVE_LW(loc[p].b)
       THEN /\ pc' = [pc EXCEPT ![p] = "cf"]
            /\ loc' = [loc EXCEPT ![p].n = BatchSize, ![p].caller = CALLER_SYNCER, ![p].ret = "sy_again"]
       ELSE /\ pc' = [pc EXCEPT ![p] = "sy_check"]
            /\ loc' = loc
    /\ UNCHANGED <<cfg, load, loadVars, emuVars, statVars, lifeVars, sumVars, pmVars, bufVars, lockVars, fl, num_flying_wr, reqVars, histVars, snaps, readVars>>

(***************************************************************************)
(* The driver                                                              *)
(***************************************************************************)
Next ==
    \/ \E t \in Threads : make_request_submit(t)
    \/ \E t \in Threads : write_barrier_lock(t)
    \/ \E t \in Threads : write_barrier_wait(t)
    \/ \E t \in Threads : write_barrier_flush(t)
    \/ \E t \in Threads : write_barrier_unlock(t)
    \/ \E t \in Threads : make_request_gate(t)
    \/ \E t \in Threads : make_request_inc(t)
    \/ \E t \in Threads : copy_to_pmbd_buffered(t)
    \/ \E t \in Threads : pmbd_buffer_alloc_block(t)
    \/ \E t \in Threads : copy_from_pmbd_buffered(t)
    \/ \E t \in Threads : pmbd_lock_on_access(t)
    \/ \E t \in Threads : pmbd_set_pages_rw(t)
    \/ \E t \in Threads : memcpy_to_pmbd(t)
    \/ \E t \in Threads : pmbd_set_pages_ro(t)
    \/ \E t \in Threads : copy_from_pmbd_unbuffered(t)
    \/ \E t \in Threads : make_request_endio(t)
    \/ \E t \in Threads : make_request_dec(t)
    \/ \E p \in Procs : pmbd_buffer_check_and_flush(p)
    \/ \E p \in Procs : pmbd_buffer_flush(p)
    \/ \E p \in Procs : pmbd_buffer_flush_range_rw(p)
    \/ \E p \in Procs : pmbd_buffer_flush_range_copy(p)
    \/ \E p \in Procs : pmbd_buffer_flush_range_done(p)
    \/ \E p \in Procs : pmbd_buffer_flush_update(p)
    \/ \E p \in Syncers : pmbd_syncer_worker(p)
    \/ \E p \in Syncers : pmbd_syncer_repeat(p)

Spec == Init /\ [][Next]_vars

(***************************************************************************)
(* The driver with one write of any position and length already inside its *)
(* segment copy: thread 1 has passed the capacity check of                 *)
(* pmbd_make_request on a freshly created device; the other thread and the *)
(* syncer run as in Spec, with one more request.                           *)
(***************************************************************************)
\* every write bio that fits the device and transfers data
AllWrites(id) ==
    {Bio(WRITE, s, n, FALSE, FALSE, id) : s \in Sectors, n \in 1 .. num_sectors} \cap
    {r \in [rw : {WRITE}, sector : Sectors, nsect : 1 .. num_sectors, flush : {FALSE},
            fua : {FALSE}, val : {id}] : Transfers(r)}

InitCopy ==
    /\ \E sc \in Scenarios : cfg = sc.cfg /\ load = [maxreq |-> MaxReq - 1, maxsync |-> sc.maxsync, bios |-> "mixed"]
    /\ pm = [s \in Sectors |-> InitCell]
    /\ page_rw = [p \in PBNs |-> ~cfg.wrprot]
    /\ pbi_bbn = [p \in PBNs |-> PBI_UNBUFFERED]
    /\ pbi_lock = [p \in PBNs |-> Free]
    /\ buffer_space = [b \in Buffers |-> [x \in SlotIdxs |-> JunkCell]]
    /\ bbi_pbn = [b \in Buffers |-> [x \in BBNs |-> BBI_UNBUFFERED]]
    /\ bbi_dirty = [b \in Buffers |-> [x \in BBNs |-> FALSE]]
    /\ num_dirty = [b \in Buffers |-> 0]
    /\ pos_dirty = [b \in Buffers |-> 0]
    /\ pos_clean = [b \in Buffers |-> 0]
    /\ flush_lock = [b \in Buffers |-> Free]
    /\ fl = [b \in Buffers |-> NoFlush]
    /\ wr_barrier_lock = Free
    /\ num_flying_wr = 1
    /\ \E r \in AllWrites(1) :
          /\ req = [t \in Threads |-> IF t = 1 THEN r ELSE NoReq]
          /\ pc = [p \in Procs |-> IF p = 1 THEN CopyEntry(r)
                                   ELSE IF p \in Threads THEN "idle"
                                   ELSE IF p \in Syncers THEN "sy_check" ELSE "up"]
          /\ loc = [p \in Procs |-> IF p = 1 THEN [NoLoc EXCEPT !.err = ERR_NONE, !.pbn = PbnS(r)]
                                    ELSE IF p \in Syncers THEN [NoLoc EXCEPT !.b = p - NumThreads - 1]
                                    ELSE NoLoc]
          /\ cands = [s \in Sectors |-> IF s \in RangeOf(r) THEN {InitCell, SrcCell(r, s)}
                                        ELSE {InitCell}]
          /\ solo = [t \in Threads |-> IF t = 1 THEN RangeOf(r) ELSE {}]
          /\ blk_w = [p \in PBNs |->
                IF RangeOf(r) \cap SectorsOf(p) = {} THEN [full |-> FALSE, ws |-> {}]
                ELSE IF SectorsOf(p) \subseteq RangeOf(r)
                     THEN [full |-> TRUE, ws |-> {<<r.val, r.sector>>}]
                     ELSE [full |-> FALSE, ws |-> {}]]
    /\ out = [t \in Threads |-> <<>>]
    /\ status = [t \in Threads |-> "none"]
    /\ nreq = 1
    /\ nsync = 0
    /\ bar_allowed = [t \in Threads |-> [s \in Sectors |-> {}]]
    /\ rd_quiet = [t \in Threads |-> FALSE]
    /\ stable = [s \in Sectors |-> InitCell]
    /\ snaps = [t \in Threads |-> {}]
    /\ torn = FALSE
    /\ rt_ok = TRUE
    /\ syncer = [b \in Buffers |-> "run"]
    /\ buffers = [b \in Buffers |-> "live"]
    /\ mode = ModeOf(cfg)
    /\ g = pmbd_parse_conf(mode, DefaultConf)
    /\ ld = [pc |-> "loaded", ret |-> ERR_NONE]
    /\ res = Loaded
    /\ checksum_space = [p \in PBNs |-> {}]
    /\ ck_log = FALSE
    /\ now = 0
    /\ batch = NoBatch
    /\ batch_lock = Free
    /\ jiffies = 0
    /\ last_access_jiffies = 0

SpecCopy == InitCopy /\ [][Next]_vars

(***************************************************************************)
(* Removal of the device: pmbd_exit, pmbd_del_one, pmbd_free, pmbd_destroy *)
(* run by the Destroyer.  The module can be unloaded only when nobody has  *)
(* the disk open, so no request is being served when the removal starts.   *)
(***************************************************************************)
\* list_del, del_gendisk, put_disk, blk_cleanup_queue: no bio arrives any
\* more; pmbd_destroy starts with pmbd_write_barrier
pmbd_del_one ==
    /\ pc[Destroyer] = "up"
    /\ \A t \in Threads : pc[t] = "idle"
    /\ pc' = [pc EXCEPT ![Destroyer] = "wb_lock"]
    /\ UNCHANGED <<cfg, load, loadVars, emuVars, statVars, lifeVars, sumVars, pmVars, bufVars, lockVars, fl, num_flying_wr, loc, reqVars,
                   histVars, snaps, readVars>>

\* the end of pmbd_write_barrier inside pmbd_destroy: spin_unlock of the
\* wr_barrier_lock; pmbd_buffer_space_free follows
pmbd_destroy ==
    /\ pc[Destroyer] = "wb_unlock"
    /\ wr_barrier_lock' = Free
    /\ pc' = [pc EXCEPT ![Destroyer] = "bs_loop"]
    /\ loc' = [loc EXCEPT ![Destroyer] = NoLoc]
    /\ UNCHANGED <<cfg, load, loadVars, emuVars, statVars, lifeVars, sumVars, pmVars, bufVars, pbi_lock, flush_lock, fl, num_flying_wr,
                   reqVars, histVars, snaps, readVars>>

\* for each buffer: pmbd_buffer_destroy; after the last one the PM pages
\* are made writable again
pmbd_buffers_destroy ==
    /\ pc[Destroyer] = "bs_loop"
    /\ IF loc[Destroyer].i < num_buffers
       THEN /\ pc' = [pc EXCEPT ![Destroyer] = "bd_stop"]
            /\ loc' = [loc EXCEPT ![Destroyer].b = loc[Destroyer].i, ![Destroyer].i = @ + 1]
       ELSE /\ pc' = [pc EXCEPT ![Destroyer] = "rw_all"]
            /\ loc' = loc
    /\ UNCHANGED <<cfg, load, loadVars, emuVars, statVars, lifeVars, sumVars, pmVars, bufVars, lockVars, fl, num_flying_wr, reqVars,
                   histVars, snaps, readVars>>

\* pmbd_buffer_syncer_stop: kthread_stop(buffer->syncer) tells the syncer
\* to end
pmbd_buffer_syncer_stop ==
    /\ pc[Destroyer] = "bd_stop"
    /\ LET b == loc[Destroyer].b
       IN  IF syncer[b] = "run"
           THEN /\ syncer' = [syncer EXCEPT ![b] = "stop"]
                /\ pc' = [pc EXCEPT ![Destroyer] = "bd_wait"]
                /\ loc' = loc
           ELSE /\ pc' = [pc EXCEPT ![Destroyer] = "cf"]
                /\ loc' = [loc EXCEPT ![Destroyer].n = num_blocks,
                                      ![Destroyer].caller = CALLER_DESTROYER,
                                      ![Destroyer].ret = "bd_free"]
                /\ UNCHANGED syncer
    /\ UNCHANGED <<cfg, load, loadVars, emuVars, statVars, sumVars, buffers, pmVars, bufVars, lockVars, fl, num_flying_wr, reqVars,
                   histVars, snaps, readVars>>

\* faulty variant of kthread_stop: it does not wait for the syncer to end
kthread_stop_nowait ==
    /\ pc[Destroyer] = "bd_wait"
    /\ syncer' = [syncer EXCEPT ![loc[Destroyer].b] = "none"]
    /\ pc' = [pc EXCEPT ![Destroyer] = "cf"]
    /\ loc' = [loc EXCEPT ![Destroyer].n = num_blocks, ![Destroyer].caller = CALLER_DESTROYER,
                          ![Destroyer].ret = "bd_free"]
    /\ UNCHANGED <<cfg, load, loadVars, emuVars, statVars, sumVars, buffers, pmVars, bufVars, lockVars, fl, num_flying_wr, reqVars,
                   histVars, snaps, readVars>>

\* kthread_stop returns when the syncer has ended; buffer->syncer = NULL and
\* pmbd_buffer_check_and_flush(buffer, num_blocks, CALLER_DESTROYER) follows
kthread_stop ==
    /\ pc[Destroyer] = "bd_wait"
    /\ pc[Syncer(loc[Destroyer].b)] = "exited"
    /\ syncer' = [syncer EXCEPT ![loc[Destroyer].b] = "none"]
    /\ pc' = [pc EXCEPT ![Destroyer] = "cf"]
    /\ loc' = [loc EXCEPT ![Destroyer].n = num_blocks, ![Destroyer].caller = CALLER_DESTROYER,
                          ![Destroyer].ret = "bd_free"]
    /\ UNCHANGED <<cfg, load, loadVars, emuVars, statVars, sumVars, buffers, pmVars, bufVars, lockVars, fl, num_flying_wr, reqVars,
                   histVars, snaps, readVars>>

\* the end of pmbd_buffer_destroy: vfree of the sort buffer, the BBI array
\* and the slots, kfree of the buffer
pmbd_buffer_destroy ==
    /\ pc[Destroyer] = "bd_free"
    /\ buffers' = [buffers EXCEPT ![loc[Destroyer].b] = "freed"]
    /\ pc' = [pc EXCEPT ![Destroyer] = "bs_loop"]
    /\ UNCHANGED <<cfg, load, loadVars, emuVars, statVars, sumVars, syncer, pmVars, bufVars, lockVars, fl, num_flying_wr, loc, reqVars,
                   histVars, snaps, readVars>>

\* the rest of pmbd_destroy: pmbd_set_pages_rw over the whole PM space of a
\* write-protected device, then the spaces are freed
pmbd_destroy_pages ==
    /\ pc[Destroyer] = "rw_all"
    /\ page_rw' = [q \in PBNs |-> IF PMBD_USE_WRITE_PROTECTION THEN TRUE ELSE page_rw[q]]
    /\ pc' = [pc EXCEPT ![Destroyer] = "down"]
    /\ UNCHANGED <<cfg, load, loadVars, emuVars, statVars, lifeVars, sumVars, pm, bufVars, lockVars, fl, num_flying_wr, loc, reqVars,
                   histVars, snaps, readVars>>

\* while (!kthread_should_stop()) at the end of a round of pmbd_syncer_worker
pmbd_syncer_exit(p) ==
    /\ pc[p] = "sy_check"
    /\ syncer[loc[p].b] = "stop"
    /\ pc' = [pc EXCEPT ![p] = "exited"]
    /\ UNCHANGED <<cfg, load, loadVars, emuVars, statVars, lifeVars, sumVars, pmVars, bufVars, lockVars, fl, num_flying_wr, loc, reqVars,
                   histVars, snaps, readVars>>

\* the driver and its removal
NextDown ==
    \/ Next
    \/ pmbd_del_one
    \/ write_barrier_lock(Destroyer)
    \/ write_barrier_wait(Destroyer)
    \/ write_barrier_flush(Destroyer)
    \/ pmbd_destroy
    \/ pmbd_buffers_destroy
    \/ pmbd_buffer_syncer_stop
    \/ kthread_stop
    \/ pmbd_buffer_destroy
    \/ pmbd_destroy_pages
    \/ \E p \in Syncers : pmbd_syncer_exit(p)

SpecDown == Init /\ [][NextDown]_vars

(***************************************************************************)
(* Loading the module: pmbd_init, pmbd_alloc, pmbd_create for one device.  *)
(* Every allocation may fail.                                              *)
(***************************************************************************)
PMBD_USE_HIGHMEM == g.type = PMBD_CONFIG_HIGHMEM

PMBD_USE_PMAP == g.pmap /\ g.type = PMBD_CONFIG_HIGHMEM

EINVAL == "EINVAL"

ENOMEM == "ENOMEM"

\* the options modprobe is given in this model
Modes ==
    { a \cup b \cup c \cup d \cup e \cup f \cup h \cup i \cup j :
        a \in {{}, {Opt("pmbd", "", 0)}, {Opt("pmbd", "#", 1)}},
        b \in {{}, {Opt("VM", "", 0)}, {Opt("HM", "", 0)}},
        c \in {{}, {Opt("hmo", "#", 8), Opt("hms", "#", 16)}, {Opt("hmo", "#", 8), Opt("hms", "#", 0)}},
        d \in {{}, {Opt("pmap", "Y", 0)}, {Opt("pmap", "N", 0)}},
        e \in {{}, {Opt("PMAP", "", 0)}},
        f \in {{}, {Opt("wrprot", "Y", 0)}, {Opt("wrprot", "N", 0)}},
        h \in {{}, {Opt("bufsize", "#", 2)}, {Opt("bufsize", "#", PMBD_BUFFER_MIN_BUFSIZE)}},
        i \in {{}, {Opt("bufnum", "#", 1)}},
        j \in {{}, {Opt("wb", "Y", 0)}} }

\* modprobe pmbd mode="...": nothing is parsed or allocated yet
InitLoadOf(modes) ==
    /\ mode \in modes
    /\ g = DefaultConf
    /\ cfg = ConfigOf(g)
    /\ ld = [pc |-> "insmod", ret |-> ERR_NONE]
    /\ res = {}
    /\ load = [maxreq |-> 0, maxsync |-> 0, bios |-> "mixed"]
    /\ pm = [s \in Sectors |-> InitCell]
    /\ page_rw = [p \in PBNs |-> TRUE]
    /\ pbi_bbn = [p \in PBNs |-> PBI_UNBUFFERED]
    /\ pbi_lock = [p \in PBNs |-> Free]
    /\ buffer_space = [b \in Buffers |-> [x \in SlotIdxs |-> JunkCell]]
    /\ bbi_pbn = [b \in Buffers |-> [x \in BBNs |-> BBI_UNBUFFERED]]
    /\ bbi_dirty = [b \in Buffers |-> [x \in BBNs |-> FALSE]]
    /\ num_dirty = [b \in Buffers |-> 0]
    /\ pos_dirty = [b \in Buffers |-> 0]
    /\ pos_clean = [b \in Buffers |-> 0]
    /\ flush_lock = [b \in Buffers |-> Free]
    /\ fl = [b \in Buffers |-> NoFlush]
    /\ wr_barrier_lock = Free
    /\ num_flying_wr = 0
    /\ pc = [p \in Procs |-> IF p \in Threads THEN "idle" ELSE IF p \in Syncers THEN "none" ELSE "up"]
    /\ loc = [p \in Procs |-> IF p \in Syncers THEN [NoLoc EXCEPT !.b = p - NumThreads - 1] ELSE NoLoc]
    /\ req = [t \in Threads |-> NoReq]
    /\ out = [t \in Threads |-> <<>>]
    /\ status = [t \in Threads |-> "none"]
    /\ nreq = 0
    /\ nsync = 0
    /\ cands = [s \in Sectors |-> {InitCell}]
    /\ solo = [t \in Threads |-> {}]
    /\ bar_allowed = [t \in Threads |-> [s \in Sectors |-> {}]]
    /\ blk_w = [p \in PBNs |-> [full |-> FALSE, ws |-> {}]]
    /\ rd_quiet = [t \in Threads |-> FALSE]
    /\ stable = [s \in Sectors |-> InitCell]
    /\ snaps = [t \in Threads |-> {}]
    /\ torn = FALSE
    /\ rt_ok = TRUE
    /\ syncer = [b \in Buffers |-> "none"]
    /\ buffers = [b \in Buffers |-> "none"]
    /\ checksum_space = [p \in PBNs |-> {}]
    /\ ck_log = FALSE
    /\ now = 0
    /\ batch = NoBatch
    /\ batch_lock = Free
    /\ jiffies = 0
    /\ last_access_jiffies = 0

InitLoad == InitLoadOf(Modes)

\* what the steps of loading leave alone
LoadFrame == UNCHANGED <<load, mode, emuVars, statVars, sumVars, pm, bufVars, lockVars, fl, num_flying_wr, loc, reqVars,
                         histVars, snaps, readVars>>

\* pmbd_init returns err
Failed(err) == ld' = [pc |-> "failed", ret |-> err]

\* pmbd_parse_conf()
pmbd_init_parse ==
    /\ ld.pc = "insmod"
    /\ g' = pmbd_parse_conf(mode, g)
    /\ cfg' = ConfigOf(g')
    /\ ld' = [ld EXCEPT !.pc = "init"]
    /\ UNCHANGED <<res, page_rw, pc, lifeVars>>
    /\ LoadFrame

\* pmbd_init after the parsing: pmbd_highmem_map, the check of g_pmbd_nr,
\* pmbd_proc_create, register_blkdev
pmbd_init ==
    /\ ld.pc = "init"
    /\ \E ok_map, ok_reg \in BOOLEAN :
          IF PMBD_USE_HIGHMEM /\ ~ok_map
          THEN Failed(ENOMEM) /\ UNCHANGED res
          ELSE IF g.nr = 0
          THEN Failed(EINVAL) /\ UNCHANGED res
          ELSE IF ~ok_reg
          THEN Failed(EIO) /\ res' = res \cup {"proc"}
          ELSE ld' = [ld EXCEPT !.pc = "alloc"] /\ res' = res \cup {"proc", "blkdev"}
    /\ UNCHANGED <<cfg, g, page_rw, pc, lifeVars>>
    /\ LoadFrame

\* pmbd_alloc up to the call of pmbd_create: kzalloc of the device,
\* blk_alloc_queue, alloc_disk
pmbd_alloc ==
    /\ ld.pc = "alloc"
    /\ \E ok_dev, ok_queue, ok_disk \in BOOLEAN :
          IF ~ok_dev \/ ~ok_queue
          THEN ld' = [ld EXCEPT !.pc = "out_free"] /\ UNCHANGED res
          ELSE IF ~ok_disk
          THEN ld' = [ld EXCEPT !.pc = "out_free_queue"] /\ res' = res \cup {"pmbd", "queue"}
          ELSE ld' = [ld EXCEPT !.pc = "c_stat"] /\ res' = res \cup {"pmbd", "queue", "disk"}
    /\ UNCHANGED <<cfg, g, page_rw, pc, lifeVars>>
    /\ LoadFrame

\* pmbd_stat_alloc: it returns 0 whether kzalloc succeeded or not
pmbd_stat_alloc ==
    /\ ld.pc = "c_stat"
    /\ \E ok \in BOOLEAN : res' = IF ok THEN res \cup {"stat"} ELSE res
    /\ ld' = [ld EXCEPT !.pc = "c_mem"]
    /\ UNCHANGED <<cfg, g, page_rw, pc, lifeVars>>
    /\ LoadFrame

\* pmbd_mem_space_alloc: vmalloc or hmalloc of the PM space; on a failure
\* pmbd_create returns the error and pmbd_alloc goes to out_free_queue
pmbd_mem_space_alloc ==
    /\ ld.pc = "c_mem"
    /\ \E ok \in BOOLEAN :
          IF ok THEN ld' = [ld EXCEPT !.pc = "c_buf"] /\ res' = res \cup {"mem_space"}
          ELSE ld' = [ld EXCEPT !.pc = "out_free_queue"] /\ UNCHANGED res
    /\ UNCHANGED <<cfg, g, page_rw, pc, lifeVars>>
    /\ LoadFrame

\* pmbd_buffer_space_alloc: nothing for num_buffers = 0, else the array of
\* buffers, then pmbd_buffers_create
pmbd_buffer_space_alloc ==
    /\ ld.pc = "c_buf"
    /\ IF g.num_buffers <= 0
       THEN ld' = [ld EXCEPT !.pc = "c_csum"] /\ UNCHANGED res
       ELSE \E ok \in BOOLEAN :
               IF ok THEN ld' = [ld EXCEPT !.pc = "c_buf_create"] /\ res' = res \cup {"buffers"}
               ELSE ld' = [ld EXCEPT !.pc = "out_free_queue"] /\ UNCHANGED res
    /\ UNCHANGED <<cfg, g, page_rw, pc, lifeVars>>
    /\ LoadFrame

\* pmbd_buffer_create for the buffer of the device: its memory, then
\* pmbd_buffer_syncer_init launches the syncer; on a failure the memory of
\* this buffer is freed
pmbd_buffer_create ==
    /\ ld.pc = "c_buf_create"
    /\ \E ok \in BOOLEAN :
          IF ok
          THEN /\ buffers' = [b \in Buffers |-> "live"]
               /\ syncer' = [b \in Buffers |-> "run"]
               /\ pc' = [p \in Procs |-> IF p \in Syncers THEN "sy_check" ELSE pc[p]]
               /\ ld' = [ld EXCEPT !.pc = "c_csum"]
          ELSE /\ ld' = [ld EXCEPT !.pc = "out_free_queue"]
               /\ UNCHANGED <<buffers, syncer, pc>>
    /\ UNCHANGED <<cfg, g, res, page_rw>>
    /\ LoadFrame

\* pmbd_checksum_space_alloc: two vmallocs, each kept when the other fails
pmbd_checksum_space_alloc ==
    /\ ld.pc = "c_csum"
    /\ \E ok1, ok2 \in BOOLEAN :
          /\ res' = res \cup (IF ok1 THEN {"checksum_space"} ELSE {})
                        \cup (IF ok2 THEN {"checksum_iomem_buf"} ELSE {})
          /\ ld' = [ld EXCEPT !.pc = IF ok1 /\ ok2 THEN "c_pbi" ELSE "out_free_queue"]
    /\ UNCHANGED <<cfg, g, page_rw, pc, lifeVars>>
    /\ LoadFrame

\* pmbd_pbi_space_alloc: vmalloc of the block info array
pmbd_pbi_space_alloc ==
    /\ ld.pc = "c_pbi"
    /\ \E ok \in BOOLEAN :
          IF ok THEN ld' = [ld EXCEPT !.pc = "c_proc"] /\ res' = res \cup {"pbi_space"}
          ELSE ld' = [ld EXCEPT !.pc = "out_free_queue"] /\ UNCHANGED res
    /\ UNCHANGED <<cfg, g, page_rw, pc, lifeVars>>
    /\ LoadFrame

\* pmbd_proc_devstat_create: the /proc/pmbd/<dev> entry
pmbd_proc_devstat_create ==
    /\ ld.pc = "c_proc"
    /\ \E ok \in BOOLEAN :
          IF ok THEN ld' = [ld EXCEPT !.pc = "c_ro"] /\ res' = res \cup {"proc_devstat"}
          ELSE ld' = [ld EXCEPT !.pc = "out_free_queue"] /\ UNCHANGED res
    /\ UNCHANGED <<cfg, g, page_rw, pc, lifeVars>>
    /\ LoadFrame

\* the end of pmbd_create: the PM pages are made read-only on a
\* write-protected device without private mapping
pmbd_create ==
    /\ ld.pc = "c_ro"
    /\ page_rw' = [p \in PBNs |-> IF ~PMBD_USE_PMAP /\ PMBD_USE_WRITE_PROTECTION THEN FALSE
                                  ELSE page_rw[p]]
    /\ ld' = [ld EXCEPT !.pc = "add_disk"]
    /\ UNCHANGED <<cfg, g, res, pc, lifeVars>>
    /\ LoadFrame

\* out_free_queue and out_free_dev of pmbd_alloc: blk_cleanup_queue(queue),
\* kfree(pmbd); pmbd_alloc returns NULL
pmbd_alloc_out_free_queue ==
    /\ ld.pc = "out_free_queue"
    /\ res' = res \ {"queue", "pmbd"}
    /\ ld' = [ld EXCEPT !.pc = "out_free"]
    /\ UNCHANGED <<cfg, g, page_rw, pc, lifeVars>>
    /\ LoadFrame

\* out_free of pmbd_init: the list of devices is empty, unregister_blkdev
pmbd_init_out_free ==
    /\ ld.pc = "out_free"
    /\ res' = res \ {"blkdev"}
    /\ Failed(ENOMEM)
    /\ UNCHANGED <<cfg, g, page_rw, pc, lifeVars>>
    /\ LoadFrame

\* list_add_tail, add_disk: the device is registered
pmbd_init_add_disk ==
    /\ ld.pc = "add_disk"
    /\ res' = res \cup {"gendisk"}
    /\ ld' = [pc |-> "loaded", ret |-> ERR_NONE]
    /\ UNCHANGED <<cfg, g, page_rw, pc, lifeVars>>
    /\ LoadFrame

NextLoad ==
    \/ pmbd_init_parse
    \/ pmbd_init
    \/ pmbd_alloc
    \/ pmbd_stat_alloc
    \/ pmbd_mem_space_alloc
    \/ pmbd_buffer_space_alloc
    \/ pmbd_buffer_create
    \/ pmbd_checksum_space_alloc
    \/ pmbd_pbi_space_alloc
    \/ pmbd_proc_devstat_create
    \/ pmbd_create
    \/ pmbd_alloc_out_free_queue
    \/ pmbd_init_out_free
    \/ pmbd_init_add_disk

SpecLoad == InitLoad /\ [][NextLoad]_vars

(***************************************************************************)
(* The sizes of a loaded device.  pmbd<n> is the capacity in GB, bufsize<n> *)
(* the size of one buffer in MB; pb_size is PAGE_SIZE (4096 bytes), and    *)
(* the sizes are counted here in blocks of pb_size bytes.                  *)
(***************************************************************************)
PagesPerMB == 256        \* MB_TO_BYTES(1) / PAGE_SIZE

PagesPerGB == 262144     \* GB_TO_BYTES(1) / PAGE_SIZE

\* the capacities (GB) and buffer sizes (MB) modprobe is given
GeomSizes == {1, 2}

GeomBufsizes == {0, 2, PMBD_BUFFER_MIN_BUFSIZE, 5, 1024, 1025, 2048, 4096}

\* PMBD_TOTAL_PB_NUM(pmbd) of a device of g_pmbd_size GB:
\* num_sectors = GB_TO_SECTORS(g_pmbd_size), sector_size = 512
TOTAL_PB_NUM(gg) == gg.size * PagesPerGB

\* buffer->num_blocks as pmbd_buffer_create sets it
buffer_num_blocks(gg) ==
    IF gg.bufsize > PMBD_BUFFER_MIN_BUFSIZE THEN gg.bufsize * PagesPerMB
    ELSE PMBD_BUFFER_MIN_BUFSIZE * PagesPerMB

\* the bbn PMBD_SET_BLOCK_UNBUFFERED stores, as pmbd_pbi_space_alloc does
\* for every block of the device
SET_BLOCK_UNBUFFERED(gg) == TOTAL_PB_NUM(gg) + 3

\* PMBD_BLOCK_IS_BUFFERED for a block whose PBI holds bbn
BLOCK_IS_BUFFERED(gg, bbn) == bbn < buffer_num_blocks(gg)

GeomModes ==
    { {Opt("pmbd", "#", sz), Opt("VM", "", 0)} \cup b \cup n :
        sz \in GeomSizes,
        b \in {{}} \cup {{Opt("bufsize", "#", bs)} : bs \in GeomBufsizes},
        n \in {{}, {Opt("bufnum", "#", 1)}} }

InitGeom == InitLoadOf(GeomModes)

SpecGeom == InitGeom /\ [][NextLoad]_vars

(***************************************************************************)
(* The driver with checksumY.  pmbd_mem_space_alloc leaves the PM space as *)
(* vmalloc returned it (its memset is compiled out), so PM starts zeroed   *)
(* (InitCell) or not (JunkCell); pmbd_checksum_space_alloc zeroes the      *)
(* checksums.                                                              *)
(***************************************************************************)
InitSum ==
    /\ \E sc \in Scenarios : cfg = sc.cfg /\ load = [maxreq |-> MaxReq - 1, maxsync |-> sc.maxsync, bios |-> "mixed"]
    /\ \E c0 \in {InitCell, JunkCell} :
          /\ pm = [s \in Sectors |-> c0]
          /\ cands = [s \in Sectors |-> {c0}]
          /\ stable = [s \in Sectors |-> c0]
    /\ page_rw = [p \in PBNs |-> ~cfg.wrprot]
    /\ pbi_bbn = [p \in PBNs |-> PBI_UNBUFFERED]
    /\ pbi_lock = [p \in PBNs |-> Free]
    /\ buffer_space = [b \in Buffers |-> [x \in SlotIdxs |-> JunkCell]]
    /\ bbi_pbn = [b \in Buffers |-> [x \in BBNs |-> BBI_UNBUFFERED]]
    /\ bbi_dirty = [b \in Buffers |-> [x \in BBNs |-> FALSE]]
    /\ num_dirty = [b \in Buffers |-> 0]
    /\ pos_dirty = [b \in Buffers |-> 0]
    /\ pos_clean = [b \in Buffers |-> 0]
    /\ flush_lock = [b \in Buffers |-> Free]
    /\ fl = [b \in Buffers |-> NoFlush]
    /\ wr_barrier_lock = Free
    /\ num_flying_wr = 0
    /\ pc = [p \in Procs |-> IF p \in Threads THEN "idle" ELSE IF p \in Syncers THEN "sy_check" ELSE "up"]
    /\ loc = [p \in Procs |-> IF p \in Syncers THEN [NoLoc EXCEPT !.b = p - NumThreads - 1] ELSE NoLoc]
    /\ req = [t \in Threads |-> NoReq]
    /\ out = [t \in Threads |-> <<>>]
    /\ status = [t \in Threads |-> "none"]
    /\ nreq = 0
    /\ nsync = 0
    /\ solo = [t \in Threads |-> {}]
    /\ bar_allowed = [t \in Threads |-> [s \in Sectors |-> {}]]
    /\ blk_w = [p \in PBNs |-> [full |-> FALSE, ws |-> {}]]
    /\ rd_quiet = [t \in Threads |-> FALSE]
    /\ snaps = [t \in Threads |-> {}]
    /\ torn = FALSE
    /\ rt_ok = TRUE
    /\ syncer = [b \in Buffers |-> "run"]
    /\ buffers = [b \in Buffers |-> "live"]
    /\ mode = ModeOf(cfg) \cup {Opt("checksum", "Y", 0)}
    /\ g = pmbd_parse_conf(mode, DefaultConf)
    /\ ld = [pc |-> "loaded", ret |-> ERR_NONE]
    /\ res = Loaded
    /\ checksum_space = [p \in PBNs |-> {}]
    /\ ck_log = FALSE
    /\ now = 0
    /\ batch = NoBatch
    /\ batch_lock = Free
    /\ jiffies = 0
    /\ last_access_jiffies = 0

NextSum ==
    \/ Next
    \/ \E p \in Procs : pmbd_checksum_on_write_cal(p)
    \/ \E p \in Procs : pmbd_checksum_on_write(p)

SpecSum == InitSum /\ [][NextSum]_vars

(***************************************************************************)
(* Emulation of a slower device: the hooks emul_start and emul_end around  *)
(* the whole request (simmode 0) or around every copy from or to PM        *)
(* (simmode 1), and pmbd_rdwr_slowdown after every copy.  Time is the      *)
(* time stamp counter; it advances by the duration of the steps the        *)
(* threads take.  Here the device has no buffer and the copy itself is     *)
(* only a duration.                                                        *)
(***************************************************************************)
cpu_khz == 1000          \* frequency of the time stamp counter, in kHz

MaxClock == 2000         \* the counter stops here

LatNs == 5000            \* the latency given with rdlat / wrlat, in ns

BwMB == 1000             \* the bandwidth given with rdbw / wrbw, in MB/s

Sx == 2                  \* the slowdown given with rdsx / wrsx

BatchBwMB == 4000        \* the bandwidth given where the batches are looked at, in MB/s

CopyCycles == {2}        \* cycles one copy may take

Gaps == {1, 1000}        \* cycles that may pass before a bio arrives

\* bio_sectors(bio); the behaviours that look at the batches have bios
\* below, at and above PMBD_BATCH_MIN_SECTORS, and half of
\* PMBD_BATCH_MAX_SECTORS
EmulSizes == IF load.bios = "batch" THEN {128, 256, 2048} ELSE {0, 300}

PMBD_SECTOR_SIZE == 512

MB_SHIFT == 20

PMBD_BATCH_MAX_SECTORS == 4096

PMBD_BATCH_MIN_SECTORS == 256

PMBD_BATCH_MAX_INTERVAL == 1000000

PMBD_BATCH_MAX_DURATION == 10000000

PMBD_DEV_USE_EMULATION == g.rdlat # 0 \/ g.wrlat # 0 \/ g.rdbw # 0 \/ g.wrbw # 0

PMBD_DEV_SIM_PMBD == PMBD_DEV_USE_EMULATION /\ g.simmode = 1

PMBD_DEV_SIM_DEV == PMBD_DEV_USE_EMULATION /\ g.simmode = 0

PMBD_DEV_USE_SLOWDOWN == g.rdsx > 1 \/ g.wrsx > 1

_cycle_to_ns(cycle, khz) == (cycle * 1000000) \div khz

cycle_to_ns(cycle) == _cycle_to_ns(cycle, cpu_khz)

DIV64_ROUND(dividend, divisor) ==
    IF divisor > 0 THEN (dividend \div divisor) + (((dividend % divisor) * 2) \div divisor) ELSE 0

cal_trans_time(nsect, rw) ==
    LET bw == IF rw = READ THEN g.rdbw ELSE g.wrbw
    IN  IF bw # 0 THEN DIV64_ROUND((nsect * PMBD_SECTOR_SIZE) * (1000000000 \div (2 ^ MB_SHIFT)), bw) ELSE 0

cal_access_time(nsect, rw) == IF rw = READ THEN g.rdlat ELSE g.wrlat

\* sync_slowdown(ns): the cycles it spins for, the first count whose time
\* exceeds ns
sync_slowdown(ns) ==
    IF ns = 0 THEN 0
    ELSE CHOOSE c \in 1 .. MaxClock : cycle_to_ns(c) > ns /\ cycle_to_ns(c - 1) <= ns

\* emul_start at time ts
emul_start(nsect, ts) == IF PMBD_DEV_USE_EMULATION /\ nsect > 0 THEN ts ELSE 0

\* where the caller of emul_end goes on: memcpy_to_pmbd / memcpy_from_pmbd
\* return to the dispatcher, the dispatcher goes to its atomic_dec
EmulRet == IF PMBD_DEV_SIM_PMBD THEN "e_endio" ELSE "e_dec"

\* emul_end after the bandwidth part
LatEntry == IF g.rdlat > 0 \/ g.wrlat > 0 THEN "e_lat" ELSE EmulRet

\* emul_end(pmbd, num_sectors, rw, start)
emul_end(nsect) ==
    IF PMBD_DEV_USE_EMULATION /\ nsect > 0
    THEN (IF g.rdbw > 0 /\ g.wrbw > 0 THEN "e_bw" ELSE LatEntry)
    ELSE EmulRet

AfterCopy(r) == IF PMBD_DEV_SIM_PMBD THEN emul_end(r.nsect) ELSE "e_endio"

AfterEndio(r) == IF PMBD_DEV_SIM_DEV THEN emul_end(r.nsect) ELSE "e_dec"

EmulRequests(id) == {Bio(rw, 0, n, FALSE, FALSE, id) : rw \in {READ, WRITE}, n \in EmulSizes}

\* what the steps of the emulation leave alone
EmulFrame == UNCHANGED <<cfg, load, loadVars, lifeVars, sumVars, pmVars, bufVars, lockVars, fl, out, nsync,
                         histVars, snaps, readVars, statVars>>

\* pmbd_make_request up to the segment loop: atomic_inc, emul_start
\* (simmode 0); an empty bio goes to out with err = 0
emul_make_request(t) ==
    /\ pc[t] = "idle"
    /\ nreq < load.maxreq
    /\ \E r \in EmulRequests(nreq + 1), d \in Gaps :
          /\ now + d <= MaxClock
          /\ now' = now + d
          /\ req' = [req EXCEPT ![t] = r]
          /\ loc' = [loc EXCEPT ![t].start = IF PMBD_DEV_SIM_DEV THEN emul_start(r.nsect, now + d) ELSE 0]
          /\ pc' = [pc EXCEPT ![t] = IF r.nsect = 0 THEN "e_endio" ELSE "e_copy"]
          /\ status' = [status EXCEPT ![t] = IF r.nsect = 0 THEN ERR_NONE ELSE EIO]
    /\ nreq' = nreq + 1
    /\ num_flying_wr' = num_flying_wr + 1
    /\ UNCHANGED <<batch, batch_lock>>
    /\ EmulFrame

\* memcpy_to_pmbd / memcpy_from_pmbd: emul_start (simmode 1), the copy
\* between TIMESTAMP(time_p1) and TIMESTAMP(time_p2), then the check of
\* pmbd_rdwr_slowdown
emul_memcpy(t) ==
    /\ pc[t] = "e_copy"
    /\ \E d \in CopyCycles :
          LET time_p1 == now
              time_p2 == now + d
              sx == IF req[t].rw = READ THEN g.rdsx ELSE g.wrsx
              cycles == IF PMBD_DEV_USE_SLOWDOWN /\ sx > 1 THEN (time_p2 - time_p1) * (sx - 1) ELSE 0
          IN  /\ time_p2 <= MaxClock
              /\ now' = time_p2
              /\ loc' = [loc EXCEPT ![t].start = IF PMBD_DEV_SIM_PMBD THEN emul_start(req[t].nsect, time_p1) ELSE @,
                                    ![t].wake = IF cycles > 0 THEN time_p2 + cycles ELSE 0]
              /\ pc' = [pc EXCEPT ![t] = IF cycles > 0 THEN "e_sx" ELSE AfterCopy(req[t])]
    /\ status' = [status EXCEPT ![t] = ERR_NONE]
    /\ UNCHANGED <<batch, batch_lock, req, nreq, num_flying_wr>>
    /\ EmulFrame

\* sync_slowdown_cycles(cycles) of pmbd_rdwr_slowdown
pmbd_rdwr_slowdown(t) ==
    /\ pc[t] = "e_sx"
    /\ (IF now >= loc[t].wake THEN now ELSE loc[t].wake) <= MaxClock
    /\ now' = IF now >= loc[t].wake THEN now ELSE loc[t].wake
    /\ loc' = [loc EXCEPT ![t].wake = 0]
    /\ pc' = [pc EXCEPT ![t] = AfterCopy(req[t])]
    /\ UNCHANGED <<batch, batch_lock, req, status, nreq, num_flying_wr>>
    /\ EmulFrame

\* pmbd_emul_transfer_time under batch_lock; when the batch ended too early
\* the lock is kept while pmbd_slowdown spins
pmbd_emul_transfer_time(t) ==
    /\ pc[t] = "e_bw"
    /\ batch_lock = Free
    /\ LET rw == req[t].rw
           n == req[t].nsect
           now_cycle == now
           b == batch[rw]
           fresh == [start_cycle |-> now_cycle, end_cycle |-> now_cycle, sectors |-> 0]
           interval_ns == cycle_to_ns(now_cycle - b.end_cycle)
           new_batch == interval_ns >= PMBD_BATCH_MAX_INTERVAL
           b1 == IF new_batch THEN b ELSE [b EXCEPT !.sectors = @ + n, !.end_cycle = now_cycle]
           duration_ns == cycle_to_ns(b1.end_cycle - b1.start_cycle)
           end_batch == new_batch \/ duration_ns >= PMBD_BATCH_MAX_DURATION
                           \/ b1.sectors >= PMBD_BATCH_MAX_SECTORS
           real_ns == cycle_to_ns(b1.end_cycle - b1.start_cycle)
           emul_ns == cal_trans_time(b1.sectors, rw)
           delay == IF end_batch /\ b1.sectors > PMBD_BATCH_MIN_SECTORS /\ emul_ns > real_ns
                    THEN emul_ns - real_ns ELSE 0
           b2 == IF end_batch THEN fresh ELSE b1
           b3 == IF new_batch THEN [fresh EXCEPT !.sectors = n] ELSE b2
       IN  IF b.start_cycle = 0
           THEN /\ batch' = [batch EXCEPT ![rw] = [b EXCEPT !.start_cycle = now_cycle, !.end_cycle = now_cycle]]
                /\ pc' = [pc EXCEPT ![t] = LatEntry]
                /\ UNCHANGED <<batch_lock, loc>>
           ELSE /\ batch' = [batch EXCEPT ![rw] = b3]
                /\ IF delay > 0
                   THEN /\ batch_lock' = t
                        /\ loc' = [loc EXCEPT ![t].wake = now + sync_slowdown(delay)]
                        /\ pc' = [pc EXCEPT ![t] = "e_thr"]
                   ELSE /\ pc' = [pc EXCEPT ![t] = LatEntry]
                        /\ UNCHANGED <<batch_lock, loc>>
    /\ UNCHANGED <<now, req, status, nreq, num_flying_wr>>
    /\ EmulFrame

\* pmbd_emul_access_time(start, end, num_sectors, rw, pmbd)
pmbd_emul_access_time(t) ==
    /\ pc[t] = "e_lat"
    /\ LET end == now
           real_ns == cycle_to_ns(end - loc[t].start)
           emul_ns == cal_access_time(req[t].nsect, req[t].rw)
       IN  IF emul_ns > real_ns
           THEN /\ loc' = [loc EXCEPT ![t].wake = now + sync_slowdown(emul_ns - real_ns)]
                /\ pc' = [pc EXCEPT ![t] = "e_pad"]
           ELSE /\ loc' = loc
                /\ pc' = [pc EXCEPT ![t] = EmulRet]
    /\ UNCHANGED <<now, batch, batch_lock, req, status, nreq, num_flying_wr>>
    /\ EmulFrame

\* pmbd_slowdown(ns, in_lock): the spinning of sync_slowdown, for the
\* bandwidth inside batch_lock and for the latency outside of it
pmbd_slowdown(t) ==
    /\ pc[t] \in {"e_thr", "e_pad"}
    /\ (IF now >= loc[t].wake THEN now ELSE loc[t].wake) <= MaxClock
    /\ now' = IF now >= loc[t].wake THEN now ELSE loc[t].wake
    /\ loc' = [loc EXCEPT ![t].wake = 0]
    /\ batch_lock' = IF pc[t] = "e_thr" THEN Free ELSE batch_lock
    /\ pc' = [pc EXCEPT ![t] = IF pc[t] = "e_thr" THEN LatEntry ELSE EmulRet]
    /\ UNCHANGED <<batch, req, status, nreq, num_flying_wr>>
    /\ EmulFrame

\* out: bio_endio(bio, err), then emul_end (simmode 0)
emul_bio_endio(t) ==
    /\ pc[t] = "e_endio"
    /\ pc' = [pc EXCEPT ![t] = AfterEndio(req[t])]
    /\ UNCHANGED <<emuVars, statVars, loc, req, status, nreq, num_flying_wr>>
    /\ EmulFrame

\* atomic_dec(&pmbd->num_flying_wr) and the return of pmbd_make_request
emul_atomic_dec(t) ==
    /\ pc[t] = "e_dec"
    /\ num_flying_wr' = num_flying_wr - 1
    /\ pc' = [pc EXCEPT ![t] = "idle"]
    /\ loc' = [loc EXCEPT ![t] = NoLoc]
    /\ req' = [req EXCEPT ![t] = NoReq]
    /\ status' = [status EXCEPT ![t] = "none"]
    /\ UNCHANGED <<emuVars, statVars, nreq>>
    /\ EmulFrame

\* the emulation options given to modprobe
EmulOpts ==
    { {Opt("rdlat", "#", LatNs), Opt("wrlat", "#", LatNs)}, {Opt("wrbw", "#", BwMB)}, {Opt("rdbw", "#", BwMB)},
      {Opt("wrsx", "#", Sx)}, {Opt("simmode", "#", 1)} }

EmulModes == {{Opt("pmbd", "#", 1), Opt("VM", "", 0)} \cup UNION E : E \in SUBSET EmulOpts}

InitEmulOf(modes, bios) ==
    /\ mode \in modes
    /\ g = pmbd_parse_conf(mode, DefaultConf)
    /\ cfg = ConfigOf(g)
    /\ load = [maxreq |-> MaxReq, maxsync |-> 0, bios |-> bios]
    /\ pm = [s \in Sectors |-> InitCell]
    /\ page_rw = [p \in PBNs |-> ~cfg.wrprot]
    /\ pbi_bbn = [p \in PBNs |-> PBI_UNBUFFERED]
    /\ pbi_lock = [p \in PBNs |-> Free]
    /\ buffer_space = [b \in Buffers |-> [x \in SlotIdxs |-> JunkCell]]
    /\ bbi_pbn = [b \in Buffers |-> [x \in BBNs |-> BBI_UNBUFFERED]]
    /\ bbi_dirty = [b \in Buffers |-> [x \in BBNs |-> FALSE]]
    /\ num_dirty = [b \in Buffers |-> 0]
    /\ pos_dirty = [b \in Buffers |-> 0]
    /\ pos_clean = [b \in Buffers |-> 0]
    /\ flush_lock = [b \in Buffers |-> Free]
    /\ fl = [b \in Buffers |-> NoFlush]
    /\ wr_barrier_lock = Free
    /\ num_flying_wr = 0
    /\ pc = [p \in Procs |-> IF p \in Threads THEN "idle" ELSE IF p \in Syncers THEN "none" ELSE "up"]
    /\ loc = [p \in Procs |-> IF p \in Syncers THEN [NoLoc EXCEPT !.b = p - NumThreads - 1] ELSE NoLoc]
    /\ req = [t \in Threads |-> NoReq]
    /\ out = [t \in Threads |-> <<>>]
    /\ status = [t \in Threads |-> "none"]
    /\ nreq = 0
    /\ nsync = 0
    /\ cands = [s \in Sectors |-> {InitCell}]
    /\ solo = [t \in Threads |-> {}]
    /\ bar_allowed = [t \in Threads |-> [s \in Sectors |-> {}]]
    /\ blk_w = [p \in PBNs |-> [full |-> FALSE, ws |-> {}]]
    /\ rd_quiet = [t \in Threads |-> FALSE]
    /\ stable = [s \in Sectors |-> InitCell]
    /\ snaps = [t \in Threads |-> {}]
    /\ torn = FALSE
    /\ rt_ok = TRUE
    /\ syncer = [b \in Buffers |-> "none"]
    /\ buffers = [b \in Buffers |-> "none"]
    /\ ld = [pc |-> "loaded", ret |-> ERR_NONE]
    /\ res = Loaded \ {"buffers"}
    /\ checksum_space = [p \in PBNs |-> {}]
    /\ ck_log = FALSE
    /\ now = 0
    /\ batch = NoBatch
    /\ batch_lock = Free
    /\ jiffies = 0
    /\ last_access_jiffies = 0

InitEmul == InitEmulOf(EmulModes, "mixed")

NextEmul ==
    \/ \E t \in Threads : emul_make_request(t)
    \/ \E t \in Threads : emul_memcpy(t)
    \/ \E t \in Threads : pmbd_rdwr_slowdown(t)
    \/ \E t \in Threads : pmbd_emul_transfer_time(t)
    \/ \E t \in Threads : pmbd_emul_access_time(t)
    \/ \E t \in Threads : pmbd_slowdown(t)
    \/ \E t \in Threads : emul_bio_endio(t)
    \/ \E t \in Threads : emul_atomic_dec(t)

SpecEmul == InitEmul /\ [][NextEmul]_vars

(***************************************************************************)
(* The device with both bandwidths given and nothing else: every request   *)
(* goes through pmbd_emul_transfer_time, with bios around the limits of a   *)
(* batch.                                                                  *)
(***************************************************************************)
BatchModes == {{Opt("pmbd", "#", 1), Opt("VM", "", 0), Opt("rdbw", "#", BatchBwMB), Opt("wrbw", "#", BatchBwMB)}}

InitBatch == InitEmulOf(BatchModes, "batch")

NextBatch ==
    \/ \E t \in Threads : emul_make_request(t)
    \/ \E t \in Threads : emul_memcpy(t)
    \/ \E t \in Threads : pmbd_emul_transfer_time(t)
    \/ \E t \in Threads : pmbd_slowdown(t)
    \/ \E t \in Threads : emul_bio_endio(t)
    \/ \E t \in Threads : emul_atomic_dec(t)

SpecBatch == InitBatch /\ [][NextBatch]_vars

(***************************************************************************)
(* The behaviours of the locks: the same device and the same steps, under  *)
(* bios that make FUA writers hold the locks of several blocks.            *)
(***************************************************************************)
InitLock ==
    /\ \E sc \in Scenarios : cfg = sc.cfg /\ load = [maxreq |-> sc.maxreq, maxsync |-> sc.maxsync, bios |-> "locks"]
    /\ pm = [s \in Sectors |-> InitCell]
    /\ page_rw = [p \in PBNs |-> ~cfg.wrprot]
    /\ pbi_bbn = [p \in PBNs |-> PBI_UNBUFFERED]
    /\ pbi_lock = [p \in PBNs |-> Free]
    /\ buffer_space = [b \in Buffers |-> [x \in SlotIdxs |-> JunkCell]]
    /\ bbi_pbn = [b \in Buffers |-> [x \in BBNs |-> BBI_UNBUFFERED]]
    /\ bbi_dirty = [b \in Buffers |-> [x \in BBNs |-> FALSE]]
    /\ num_dirty = [b \in Buffers |-> 0]
    /\ pos_dirty = [b \in Buffers |-> 0]
    /\ pos_clean = [b \in Buffers |-> 0]
    /\ flush_lock = [b \in Buffers |-> Free]
    /\ fl = [b \in Buffers |-> NoFlush]
    /\ wr_barrier_lock = Free
    /\ num_flying_wr = 0
    /\ pc = [p \in Procs |-> IF p \in Threads THEN "idle" ELSE IF p \in Syncers THEN "sy_check" ELSE "up"]
    /\ loc = [p \in Procs |-> IF p \in Syncers THEN [NoLoc EXCEPT !.b = p - NumThreads - 1] ELSE NoLoc]
    /\ req = [t \in Threads |-> NoReq]
    /\ out = [t \in Threads |-> <<>>]
    /\ status = [t \in Threads |-> "none"]
    /\ nreq = 0
    /\ nsync = 0
    /\ cands = [s \in Sectors |-> {InitCell}]
    /\ solo = [t \in Threads |-> {}]
    /\ bar_allowed = [t \in Threads |-> [s \in Sectors |-> {}]]
    /\ blk_w = [p \in PBNs |-> [full |-> FALSE, ws |-> {}]]
    /\ rd_quiet = [t \in Threads |-> FALSE]
    /\ stable = [s \in Sectors |-> InitCell]
    /\ snaps = [t \in Threads |-> {}]
    /\ torn = FALSE
    /\ rt_ok = TRUE
    /\ syncer = [b \in Buffers |-> "run"]
    /\ buffers = [b \in Buffers |-> "live"]
    /\ mode = ModeOf(cfg)
    /\ g = pmbd_parse_conf(mode, DefaultConf)
    /\ ld = [pc |-> "loaded", ret |-> ERR_NONE]
    /\ res = Loaded
    /\ checksum_space = [p \in PBNs |-> {}]
    /\ ck_log = FALSE
    /\ now = 0
    /\ batch = NoBatch
    /\ batch_lock = Free
    /\ jiffies = 0
    /\ last_access_jiffies = 0

SpecLock == InitLock /\ [][Next]_vars

(***************************************************************************)
(* The buffered device under bios that never stop coming, with fair        *)
(* scheduling.  Every process that can take a step of its own keeps        *)
(* running (weak fairness); spin_lock is a ticket lock, so a process that  *)
(* spins on a lock that is released again and again gets it (strong        *)
(* fairness of the steps that take a lock).  The spin on num_flying_wr is  *)
(* a poll, not a queue: it gets weak fairness only.  Nobody has to submit  *)
(* a bio.  The device starts with every block written once and flushed:    *)
(* the bios rewrite the data PM and the slots already hold.                *)
(***************************************************************************)
InitFair ==
    /\ cfg = Config(TRUE, TRUE, TRUE, TRUE, FALSE, 0)
    /\ \E bios \in {"writers", "barrier"} : load = [maxreq |-> 1, maxsync |-> 1, bios |-> bios]
    /\ pm = [s \in Sectors |-> <<1, s % SectPerPB>>]
    /\ page_rw = [p \in PBNs |-> ~cfg.wrprot]
    /\ pbi_bbn = [p \in PBNs |-> PBI_UNBUFFERED]
    /\ pbi_lock = [p \in PBNs |-> Free]
    /\ buffer_space = [b \in Buffers |-> [x \in SlotIdxs |-> <<1, x % SectPerPB>>]]
    /\ bbi_pbn = [b \in Buffers |-> [x \in BBNs |-> BBI_UNBUFFERED]]
    /\ bbi_dirty = [b \in Buffers |-> [x \in BBNs |-> FALSE]]
    /\ num_dirty = [b \in Buffers |-> 0]
    /\ pos_dirty = [b \in Buffers |-> 0]
    /\ pos_clean = [b \in Buffers |-> 0]
    /\ flush_lock = [b \in Buffers |-> Free]
    /\ fl = [b \in Buffers |-> NoFlush]
    /\ wr_barrier_lock = Free
    /\ num_flying_wr = 0
    /\ pc = [p \in Procs |-> IF p \in Threads THEN "idle" ELSE IF p \in Syncers THEN "sy_check" ELSE "up"]
    /\ loc = [p \in Procs |-> IF p \in Syncers THEN [NoLoc EXCEPT !.b = p - NumThreads - 1] ELSE NoLoc]
    /\ req = [t \in Threads |-> NoReq]
    /\ out = [t \in Threads |-> <<>>]
    /\ status = [t \in Threads |-> "none"]
    /\ nreq = 0
    /\ nsync = 0
    /\ cands = [s \in Sectors |-> {<<1, s % SectPerPB>>}]
    /\ solo = [t \in Threads |-> {}]
    /\ bar_allowed = [t \in Threads |-> [s \in Sectors |-> {}]]
    /\ blk_w = [p \in PBNs |-> [full |-> FALSE, ws |-> {}]]
    /\ rd_quiet = [t \in Threads |-> FALSE]
    /\ stable = [s \in Sectors |-> <<1, s % SectPerPB>>]
    /\ snaps = [t \in Threads |-> {}]
    /\ torn = FALSE
    /\ rt_ok = TRUE
    /\ syncer = [b \in Buffers |-> "run"]
    /\ buffers = [b \in Buffers |-> "live"]
    /\ mode = ModeOf(cfg)
    /\ g = pmbd_parse_conf(mode, DefaultConf)
    /\ ld = [pc |-> "loaded", ret |-> ERR_NONE]
    /\ res = Loaded
    /\ checksum_space = [p \in PBNs |-> {}]
    /\ ck_log = FALSE
    /\ now = 0
    /\ batch = NoBatch
    /\ batch_lock = Free
    /\ jiffies = 0
    /\ last_access_jiffies = 0

\* the steps of thread t inside pmbd_make_request
ThreadNext(t) ==
    \/ write_barrier_lock(t)
    \/ write_barrier_wait(t)
    \/ write_barrier_flush(t)
    \/ write_barrier_unlock(t)
    \/ make_request_gate(t)
    \/ make_request_inc(t)
    \/ copy_to_pmbd_buffered(t)
    \/ pmbd_buffer_alloc_block(t)
    \/ copy_from_pmbd_buffered(t)
    \/ make_request_endio(t)
    \/ make_request_dec(t)

\* the steps of process p inside the flush engine
FlushNext(p) ==
    \/ pmbd_buffer_check_and_flush(p)
    \/ pmbd_buffer_flush(p)
    \/ pmbd_buffer_flush_range_copy(p)
    \/ pmbd_buffer_flush_range_done(p)
    \/ pmbd_buffer_flush_update(p)

\* the steps of the syncer p
SyncerNext(p) == pmbd_syncer_worker(p) \/ pmbd_syncer_repeat(p)

\* the steps in which process p comes out of a spin_lock
TakesLock(p) ==
    \/ p \in Threads /\ (write_barrier_lock(p) \/ make_request_gate(p) \/ copy_to_pmbd_buffered(p)
                           \/ copy_from_pmbd_buffered(p))
    \/ pmbd_buffer_flush(p)
    \/ pmbd_buffer_flush_range_copy(p)

NextFair ==
    \/ \E t \in Threads : make_request_submit(t)
    \/ \E t \in Threads : ThreadNext(t)
    \/ \E p \in Procs : FlushNext(p)
    \/ \E p \in Syncers : SyncerNext(p)

Fairness ==
    /\ \A t \in Threads : WF_vars(ThreadNext(t) \/ FlushNext(t)) /\ SF_vars(TakesLock(t))
    /\ \A p \in Syncers : WF_vars(SyncerNext(p) \/ FlushNext(p)) /\ SF_vars(TakesLock(p))

SpecFair == InitFair /\ [][NextFair]_vars /\ Fairness

(***************************************************************************)
(* The buffered device with the tick counter running: requests stamp the   *)
(* access time, the syncer makes its idle test in two reads.               *)
(***************************************************************************)
InitIdle ==
    /\ cfg = Config(TRUE, TRUE, TRUE, TRUE, FALSE, 0)
    /\ load = [maxreq |-> 1, maxsync |-> 1, bios |-> "timed"]
    /\ pm = [s \in Sectors |-> InitCell]
    /\ page_rw = [p \in PBNs |-> ~cfg.wrprot]
    /\ pbi_bbn = [p \in PBNs |-> PBI_UNBUFFERED]
    /\ pbi_lock = [p \in PBNs |-> Free]
    /\ buffer_space = [b \in Buffers |-> [x \in SlotIdxs |-> JunkCell]]
    /\ bbi_pbn = [b \in Buffers |-> [x \in BBNs |-> BBI_UNBUFFERED]]
    /\ bbi_dirty = [b \in Buffers |-> [x \in BBNs |-> FALSE]]
    /\ num_dirty = [b \in Buffers |-> 0]
    /\ pos_dirty = [b \in Buffers |-> 0]
    /\ pos_clean = [b \in Buffers |-> 0]
    /\ flush_lock = [b \in Buffers |-> Free]
    /\ fl = [b \in Buffers |-> NoFlush]
    /\ wr_barrier_lock = Free
    /\ num_flying_wr = 0
    /\ pc = [p \in Procs |-> IF p \in Threads THEN "idle" ELSE IF p \in Syncers THEN "sy_check" ELSE "up"]
    /\ loc = [p \in Procs |-> IF p \in Syncers THEN [NoLoc EXCEPT !.b = p - NumThreads - 1] ELSE NoLoc]
    /\ req = [t \in Threads |-> NoReq]
    /\ out = [t \in Threads |-> <<>>]
    /\ status = [t \in Threads |-> "none"]
    /\ nreq = 0
    /\ nsync = 0
    /\ cands = [s \in Sectors |-> {InitCell}]
    /\ solo = [t \in Threads |-> {}]
    /\ bar_allowed = [t \in Threads |-> [s \in Sectors |-> {}]]
    /\ blk_w = [p \in PBNs |-> [full |-> FALSE, ws |-> {}]]
    /\ rd_quiet = [t \in Threads |-> FALSE]
    /\ stable = [s \in Sectors |-> InitCell]
    /\ snaps = [t \in Threads |-> {}]
    /\ torn = FALSE
    /\ rt_ok = TRUE
    /\ syncer = [b \in Buffers |-> "run"]
    /\ buffers = [b \in Buffers |-> "live"]
    /\ mode = ModeOf(cfg)
    /\ g = pmbd_parse_conf(mode, DefaultConf)
    /\ ld = [pc |-> "loaded", ret |-> ERR_NONE]
    /\ res = Loaded
    /\ checksum_space = [p \in PBNs |-> {}]
    /\ ck_log = FALSE
    /\ now = 0
    /\ batch = NoBatch
    /\ batch_lock = Free
    /\ jiffies = 0
    /\ last_access_jiffies = 0

NextIdle ==
    \/ jiffies_tick
    \/ \E t \in Threads : make_request_submit(t)
    \/ \E t \in Threads : make_request_gate(t)
    \/ \E t \in Threads : make_request_inc(t)
    \/ \E t \in Threads : copy_to_pmbd_buffered(t)
    \/ \E t \in Threads : pmbd_buffer_alloc_block(t)
    \/ \E t \in Threads : make_request_endio(t)
    \/ \E t \in Threads : make_request_dec(t)
    \/ \E p \in Syncers : pmbd_syncer_now(p)
    \/ \E p \in Syncers : pmbd_syncer_worker(p)
    \/ \E p \in Syncers : pmbd_syncer_repeat(p)
    \/ \E p \in Procs : pmbd_buffer_check_and_flush(p)
    \/ \E p \in Procs : pmbd_buffer_flush(p)
    \/ \E p \in Procs : pmbd_buffer_flush_range_copy(p)
    \/ \E p \in Procs : pmbd_buffer_flush_range_done(p)
    \/ \E p \in Procs : pmbd_buffer_flush_update(p)

SpecIdle == InitIdle /\ [][NextIdle]_vars

(***************************************************************************)
(* The buffered device under both write-protection modes: wpmode 0 (the    *)
(* flush sorts its snapshot by PBN) and wpmode 1 (CR0.WP is switched off   *)
(* around each copy, the snapshot stays in ring order).                    *)
(***************************************************************************)
BypassScenarios ==
    { Scenario(Config(TRUE, TRUE, TRUE, TRUE, TRUE, 1), MaxReq, 0),
      Scenario(Config(TRUE, TRUE, TRUE, TRUE, TRUE, 1), MaxReq - 1, MaxSync),
      Scenario(Config(TRUE, TRUE, TRUE, TRUE, TRUE, 0), MaxReq, 0),
      Scenario(Config(FALSE, TRUE, TRUE, TRUE, TRUE, 1), MaxReq - 1, 0) }

InitBypass ==
    /\ \E sc \in BypassScenarios : cfg = sc.cfg /\ load = [maxreq |-> sc.maxreq, maxsync |-> sc.maxsync, bios |-> "mixed"]
    /\ pm = [s \in Sectors |-> InitCell]
    /\ page_rw = [p \in PBNs |-> ~cfg.wrprot]
    /\ pbi_bbn = [p \in PBNs |-> PBI_UNBUFFERED]
    /\ pbi_lock = [p \in PBNs |-> Free]
    /\ buffer_space = [b \in Buffers |-> [x \in SlotIdxs |-> JunkCell]]
    /\ bbi_pbn = [b \in Buffers |-> [x \in BBNs |-> BBI_UNBUFFERED]]
    /\ bbi_dirty = [b \in Buffers |-> [x \in BBNs |-> FALSE]]
    /\ num_dirty = [b \in Buffers |-> 0]
    /\ pos_dirty = [b \in Buffers |-> 0]
    /\ pos_clean = [b \in Buffers |-> 0]
    /\ flush_lock = [b \in Buffers |-> Free]
    /\ fl = [b \in Buffers |-> NoFlush]
    /\ wr_barrier_lock = Free
    /\ num_flying_wr = 0
    /\ pc = [p \in Procs |-> IF p \in Threads THEN "idle" ELSE IF p \in Syncers THEN "sy_check" ELSE "up"]
    /\ loc = [p \in Procs |-> IF p \in Syncers THEN [NoLoc EXCEPT !.b = p - NumThreads - 1] ELSE NoLoc]
    /\ req = [t \in Threads |-> NoReq]
    /\ out = [t \in Threads |-> <<>>]
    /\ status = [t \in Threads |-> "none"]
    /\ nreq = 0
    /\ nsync = 0
    /\ cands = [s \in Sectors |-> {InitCell}]
    /\ solo = [t \in Threads |-> {}]
    /\ bar_allowed = [t \in Threads |-> [s \in Sectors |-> {}]]
    /\ blk_w = [p \in PBNs |-> [full |-> FALSE, ws |-> {}]]
    /\ rd_quiet = [t \in Threads |-> FALSE]
    /\ stable = [s \in Sectors |-> InitCell]
    /\ snaps = [t \in Threads |-> {}]
    /\ torn = FALSE
    /\ rt_ok = TRUE
    /\ syncer = [b \in Buffers |-> "run"]
    /\ buffers = [b \in Buffers |-> "live"]
    /\ mode = ModeOf(cfg)
    /\ g = pmbd_parse_conf(mode, DefaultConf)
    /\ ld = [pc |-> "loaded", ret |-> ERR_NONE]
    /\ res = Loaded
    /\ checksum_space = [p \in PBNs |-> {}]
    /\ ck_log = FALSE
    /\ now = 0
    /\ batch = NoBatch
    /\ batch_lock = Free
    /\ jiffies = 0
    /\ last_access_jiffies = 0

SpecBypass == InitBypass /\ [][Next]_vars

TypeOK ==
    /\ cfg \in {sc.cfg : sc \in Scenarios}
    /\ num_flying_wr \in 0 .. NumThreads
    /\ \A b \in Buffers : num_dirty[b] \in 0 .. num_blocks
    /\ \A s \in Sectors : MidIn(pc, loc, req, SectorsOf(SECTOR_TO_PBN(s))) \/ stable[s] = pm[s]
    /\ cfg = ConfigOf(g)

(***************************************************************************)
(* Properties                                                              *)
(***************************************************************************)
\* process p took the step
Moved(p) == pc'[p] # pc[p] \/ loc'[p] # loc[p]

\* C1: round trip.  Every cell a read delivers is a legitimate content of
\* its sector: once a write that no other write overlapped has completed,
\* the only legitimate content of its sectors is the written data, until
\* another write to them is submitted.  A read that transfers data delivers
\* its whole range.  This covers the unbuffered device, data still in the
\* buffer, and data moved to PM by the syncer, the allocator or a barrier.
C1_RoundTrip ==
    /\ rt_ok
    /\ \A t \in Threads :
          (pc[t] \in {"endio", "dec"} /\ req[t].rw = READ /\ Transfers(req[t]))
              => Len(out[t]) = req[t].nsect

\* a read with no write in flight has delivered, on a buffered device with
\* every block flushed to PM, the page an earlier write stored
C1_Witness ==
    \E t \in Threads :
        /\ pc[t] = "endio" /\ req[t].rw = READ /\ rd_quiet[t] /\ cfg.bufmode
        /\ Len(out[t]) = SectPerPB + 1
        /\ \A p \in PBNs : ~PMBD_BLOCK_IS_BUFFERED(p)
        /\ \E v \in 1 .. MaxReq : \A j \in 1 .. Len(out[t]) : out[t][j] = <<v, j - 1>>

\* C2: barrier durability.  On a buffered device with wb=Y, when a
\* flush-flagged request completes, every PM sector holds a content that was
\* legitimate when the request was issued (the data of the completed write,
\* if no other write overlapped it) or the data of a write issued later.
C2_BarrierDurable ==
    \A t \in Threads :
        (pc[t] \in {"endio", "dec"} /\ req[t].flush /\ cfg.wb /\ cfg.bufmode)
            => \A s \in Sectors : pm[s] \in bar_allowed[t][s]

\* a flush-flagged request is about to complete on a device without syncer
\* rounds, and a sector no FUA write reaches holds in PM the only content
\* that was legitimate for it
C2_Witness ==
    \E t \in Threads :
        /\ pc[t] = "endio" /\ req[t].flush /\ cfg.wb /\ cfg.bufmode /\ load.maxsync = 0
        /\ \E s \in Sectors : s >= SectPerPB /\ pm[s] # InitCell /\ bar_allowed[t][s] = {pm[s]}

\* C3: after the drain of a barrier and before the barrier lock is released,
\* every buffer has num_dirty = 0 and no block is bound to a slot.
C3_DrainedAtUnlock ==
    \A t \in Threads :
        (pc[t] = "wb_unlock" /\ cfg.bufmode)
            => /\ \A b \in Buffers : num_dirty[b] = 0
               /\ \A p \in PBNs : ~PMBD_BLOCK_IS_BUFFERED(p)

\* C4: FUA durability.  On a buffered device with FUA honoured, when the
\* completion of an FUA write is signalled, PM holds the written data in
\* every sector of the range that no other write overlapped.
C4_FuaDurable ==
    \A t \in Threads :
        (pc[t] = "endio" /\ req[t].rw = WRITE /\ do_fua(req[t]) /\ cfg.bufmode /\ Transfers(req[t]))
            => \A s \in solo[t] : pm[s] = SrcCell(req[t], s)

\* an FUA write that nothing overlapped is about to complete; its block is
\* still bound and dirty in the buffer (no flush ran), and PM has the data
C4_Witness ==
    \E t \in Threads :
        /\ pc[t] = "endio" /\ req[t].rw = WRITE /\ do_fua(req[t]) /\ cfg.bufmode
        /\ solo[t] = RangeOf(req[t]) /\ solo[t] # {}
        /\ \A p \in PbnS(req[t]) .. PbnE(req[t]) :
              /\ PMBD_BLOCK_IS_BUFFERED(p)
              /\ bbi_dirty[PBN_TO_PMBD_BUFFER_ID(p)][pbi_bbn[p]]
        /\ \A s \in solo[t] : pm[s] = SrcCell(req[t], s)

\* C5: frame of a write.  A step changes the content of a sector (the slot
\* cell of a buffered block, the PM cell of an unbuffered one) only if it is
\* a step of a write whose range holds the sector; the rest of a partly
\* written block keeps its content, whether the block was bound before the
\* write or is bound, and filled from PM, by it.
C5_PartialFrame ==
    [][\A s \in Sectors :
          Logical(s)' # Logical(s)
              => \E t \in Threads : Moved(t) /\ req[t].rw = WRITE /\ s \in RangeOf(req[t])]_vars

\* a one-sector write is about to complete; its block is bound, the slot has
\* the new data in the written sector and an earlier write's data in the
\* other sector
C5_Witness ==
    \E t \in Threads :
        /\ pc[t] = "endio" /\ req[t].rw = WRITE /\ req[t].nsect = 1 /\ req[t].sector = 0
        /\ PMBD_BLOCK_IS_BUFFERED(0)
        /\ Logical(0) = SrcCell(req[t], 0)
        /\ Logical(1)[1] \notin {0, req[t].val}
        /\ Logical(1)[2] = 1

Quiescent ==
    /\ \A t \in Threads : pc[t] = "idle"
    /\ \A p \in Syncers : pc[p] = "sy_check"
    /\ \A b \in Buffers : num_dirty[b] = 0 /\ flush_lock[b] = Free
    /\ \A p \in PBNs : ~PMBD_BLOCK_IS_BUFFERED(p)

\* block p holds in PM the whole data of one of the full-block writes that
\* competed for it last
OneOfTheWrites(p) ==
    (blk_w[p].full /\ blk_w[p].ws # {})
        => \E w \in blk_w[p].ws : \A s \in SectorsOf(p) : pm[s] = <<w[1], s - w[2]>>

\* a read that ran with no write in flight has delivered the present content
ReadsPresent ==
    \A t \in Threads :
        (pc[t] = "endio" /\ req[t].rw = READ /\ rd_quiet[t] /\ Transfers(req[t]))
            => \A j \in 1 .. Len(out[t]) : out[t][j] = Logical(req[t].sector + j - 1)

C8_ReadOnlyAtRest ==
    (Protected /\ \A p \in Procs : pc[p] \notin {"ub_copy", "ub_ro", "fl_copy", "fl_ro", "oops", "panic_range"})
        => \A q \in PBNs : ~page_rw[q]

\* on a protected buffered device an FUA write and a flush of its block
\* are over, the data is in PM and every page is read-only
C8_Witness ==
    /\ Protected /\ cfg.bufmode
    /\ \A t \in Threads : pc[t] = "idle"
    /\ \A p \in Syncers : pc[p] = "sy_check"
    /\ nsync > 0
    /\ \A b \in Buffers : num_dirty[b] = 0
    /\ pm[0] # InitCell
    /\ \A q \in PBNs : ~page_rw[q]

\* thread t is counted in num_flying_wr
Counted(t) ==
    /\ pc[t] \notin {"idle", "wb_lock", "wb_wait", "wb_flush", "wb_unlock", "gate", "inc"}
    /\ loc[t].ret # "wb_flush"

\* the stored data and the buffer bookkeeping
Stored == <<pm, buffer_space, pbi_bbn, bbi_pbn, num_dirty>>

\* C9, as stated: a request that ends beyond the capacity completes with an
\* I/O error, no step of it changes PM, a slot, a binding or num_dirty, and
\* num_flying_wr counts exactly the requests between atomic_inc and
\* atomic_dec.
C9_ChangesNothing ==
    /\ [](\A t \in Threads : (pc[t] = "dec" /\ ExceedsCapacity(req[t])) => status[t] = EIO)
    /\ [](num_flying_wr = Cardinality({t \in Threads : Counted(t)}))
    /\ [][\A t \in Threads : (Moved(t) /\ ExceedsCapacity(req[t])) => UNCHANGED Stored]_vars

\* the steps of the barrier drain, run by the request itself
InDrain(t) == pc[t] \in {"cf", "fl_lock", "fl_rw", "fl_copy", "fl_ro", "fl_update"} /\ loc[t].ret = "wb_flush"

\* C9, with the barrier set apart: a request that ends beyond the capacity
\* completes with an I/O error and never reaches a copy; apart from the
\* drain of the barrier it runs first when it carries the flush flag and
\* wb=Y, no step of it changes PM, a slot, a binding or num_dirty; and
\* num_flying_wr counts exactly the requests between atomic_inc and
\* atomic_dec.
C9_Rejected ==
    /\ [](\A t \in Threads : (pc[t] = "dec" /\ ExceedsCapacity(req[t])) => status[t] = EIO)
    /\ [](\A t \in Threads : ExceedsCapacity(req[t]) =>
              \/ pc[t] \in {"gate", "inc", "endio", "dec"}
              \/ /\ req[t].flush /\ cfg.wb
                 /\ pc[t] \in {"wb_lock", "wb_wait", "wb_flush", "wb_unlock", "oops", "panic", "panic_range"}
                         \/ InDrain(t))
    /\ [](num_flying_wr = Cardinality({t \in Threads : Counted(t)}))
    /\ [][\A t \in Threads : (Moved(t) /\ ExceedsCapacity(req[t]) /\ ~InDrain(t)) => UNCHANGED Stored]_vars

\* a request beyond the capacity, without the flush flag, has been completed
\* with an I/O error while a block is dirty in the buffer
C9_Witness ==
    \E t \in Threads :
        /\ pc[t] = "dec" /\ ExceedsCapacity(req[t]) /\ req[t].nsect > 0 /\ ~req[t].flush
        /\ status[t] = EIO
        /\ \E b \in Buffers : num_dirty[b] > 0

\* C10, as stated: every empty request completes with success, whatever its
\* start sector and flags.
C10_EmptyOk ==
    \A t \in Threads : (pc[t] = "dec" /\ req[t].nsect = 0) => status[t] = ERR_NONE

\* C10, for start sectors up to the capacity: an empty request completes
\* with success, whatever its flags.
C10_EmptyOkInRange ==
    \A t \in Threads :
        (pc[t] = "dec" /\ req[t].nsect = 0 /\ req[t].sector <= num_sectors) => status[t] = ERR_NONE

\* an empty request with the flush flag has been completed with success
C10_Witness ==
    \E t \in Threads :
        /\ pc[t] = "dec" /\ req[t].nsect = 0 /\ req[t].flush /\ req[t].sector <= num_sectors
        /\ status[t] = ERR_NONE

\* the sectors of write r that lie in block p: the first and the last one
FirstIn(r, p) == IF r.sector > PBN_TO_SECTOR(p) THEN r.sector ELSE PBN_TO_SECTOR(p)

LastIn(r, p) == IF r.sector + r.nsect - 1 < PBN_TO_SECTOR(p + 1) - 1
                THEN r.sector + r.nsect - 1 ELSE PBN_TO_SECTOR(p + 1) - 1

\* thread t finishes block loc[t].pbn of copy_to_pmbd_buffered in this step
BlockCopied(t) ==
    /\ pc[t] \in {"wr_lock", "wr_alloc"}
    /\ pc'[t] \notin {"wr_alloc", "cf"}
    /\ Moved(t)

\* C11: splitting of a buffered write over physical blocks.  The step of
\* copy_to_pmbd_buffered that writes block p of request r puts the source
\* cells of exactly the sectors of r that lie in p into the slot of p: from
\* the in-block start offset to the block end in the first block, from the
\* block start to the in-block end offset in the last block, the whole
\* block in between; the other sectors of p keep their content.  The source
\* is consumed in order (the block starts at the source offset of its first
\* sector and leaves the offset of the next block's first sector), and
\* after the last block the sizes add up to the length of the request.
C11_BlockSplit ==
    [][\A t \in Threads : BlockCopied(t) =>
          LET r == req[t]
              p == loc[t].pbn
              lo == FirstIn(r, p)
              hi == LastIn(r, p)
          IN  /\ pbi_bbn'[p] < num_blocks
              /\ \A s \in SectorsOf(p) :
                    Logical(s)' = IF s \in lo .. hi THEN SrcCell(r, s) ELSE Logical(s)
              /\ loc[t].from = lo - r.sector
              /\ IF p = PbnE(r)
                 THEN loc[t].from + (hi - lo + 1) = r.nsect /\ pc'[t] \in {"endio", "ub_lock"}
                 ELSE /\ pc'[t] = "wr_lock"
                      /\ loc'[t].pbn = p + 1
                      /\ loc'[t].from = hi + 1 - r.sector]_vars

\* a write that starts and ends inside a block and covers a whole block in
\* between has been copied, and every sector of it reads as written
C11_Witness ==
    \E t \in Threads :
        /\ pc[t] = "endio"
        /\ req[t].rw = WRITE
        /\ Transfers(req[t])
        /\ PbnE(req[t]) >= PbnS(req[t]) + 2
        /\ req[t].sector > PBN_TO_SECTOR(PbnS(req[t]))
        /\ req[t].sector + req[t].nsect < PBN_TO_SECTOR(PbnE(req[t]) + 1)
        /\ cfg.bufmode
        /\ \A s \in RangeOf(req[t]) : Logical(s) = SrcCell(req[t], s)

\* C12: teardown.  When pmbd_destroy has finished, every buffer is drained:
\* no slot is dirty, no block is bound to a slot, and PM holds for every
\* sector a legitimate content (the data of the last completed write when
\* no other write overlapped it).  The memory of a buffer is released only
\* after its syncer has ended.
C12_Teardown ==
    /\ pc[Destroyer] = "down" =>
          /\ \A b \in Buffers : num_dirty[b] = 0 /\ \A x \in BBNs : ~bbi_dirty[b][x]
          /\ \A p \in PBNs : ~PMBD_BLOCK_IS_BUFFERED(p)
          /\ \A s \in Sectors : pm[s] \in cands[s]
          /\ \A b \in Buffers : buffers[b] = "freed"
    /\ \A b \in Buffers : buffers[b] = "freed" => pc[Syncer(b)] = "exited" /\ syncer[b] = "none"

\* a buffered device whose syncer never flushed has been removed, and PM
\* holds the data of a completed write
C12_Witness ==
    /\ pc[Destroyer] = "down"
    /\ cfg.bufmode
    /\ nsync = 0
    /\ \E s \in Sectors : pm[s] # InitCell /\ cands[s] = {pm[s]}

\* C13: private mapping together with write protection.  Whenever pmbd_init
\* has ended for an option string that selects private mapping (pmapY on a
\* high-memory device) and write protection (wrprotY), it has returned an
\* error and no disk is registered.
C13_PmapWrprotRejected ==
    (ld.pc \in {"loaded", "failed"} /\ strstr_arg(mode, "pmap", "Y") /\ strstr_arg(mode, "wrprot", "Y")
        /\ ~strstr(mode, "VM"))
    => ld.pc = "failed" /\ ld.ret # ERR_NONE /\ "gendisk" \notin res

\* C14: allocation failures during construction.  A module that ended up
\* loaded has every space of its device (statistics, PM space, checksum
\* space and scratch, block info array), so a failed allocation always
\* makes pmbd_init fail; and when pmbd_init has failed it returned an error,
\* no disk is registered and no syncer of the device is running.
C14_AllocFailure ==
    /\ ld.pc = "loaded" =>
          {"stat", "mem_space", "checksum_space", "checksum_iomem_buf", "pbi_space"} \subseteq res
    /\ ld.pc = "failed" =>
          /\ ld.ret # ERR_NONE
          /\ "gendisk" \notin res
          /\ \A b \in Buffers : syncer[b] # "run" /\ pc[Syncer(b)] \in {"none", "exited"}

\* thread t takes data from page x of PM in this step, after
\* pmbd_checksum_on_read of the page
ReadsPage(t, x) ==
    /\ PMBD_USE_CHECKSUM
    /\ out'[t] # out[t]
    /\ \/ pc[t] = "rd_buf" /\ x = loc[t].pbn /\ ~PMBD_BLOCK_IS_BUFFERED(x)
       \/ pc[t] = "ubr_copy" /\ loc[t].k = 0 /\ x \in PbnS(req[t]) .. PbnE(req[t])

\* a write of a request has reached page x of PM
WrittenPage(x) == \E s \in SectorsOf(x) : pm[s][1] # 0

\* C15: with checksums kept (and the block locks in use), whenever a read
\* takes a page from PM that a direct write or a flush has written, the
\* stored checksum of the page is the CRC of what PM holds of it, also when
\* the read runs while the page is being flushed
C15_ChecksumOnRead ==
    [][\A t \in Threads : \A x \in PBNs :
          (ReadsPage(t, x) /\ PMBD_USE_LOCK /\ WrittenPage(x))
              => checksum_space[x] = pmbd_checksum_func[PageOf(x)]]_vars

\* thread t signals the completion of its bio in this step
SignalsCompletion(t) == pc[t] = "e_endio" /\ pc'[t] # "e_endio"

\* C16: on a device emulated as a whole (simmode 0) with a latency, the
\* completion of a bio that transfers data is signalled only when the time
\* since its dispatch is at least the latency configured for its direction
C16_CompletionAfterLatency ==
    [][\A t \in Threads :
          (SignalsCompletion(t) /\ g.simmode = 0 /\ (g.rdlat > 0 \/ g.wrlat > 0) /\ req[t].nsect > 0)
              => cycle_to_ns(now - loc[t].start) >= cal_access_time(req[t].nsect, req[t].rw)]_vars

\* thread t leaves emul_end for a write that transfers data in this step
EndsWriteEmulation(t) ==
    /\ req[t].rw = WRITE /\ req[t].nsect > 0
    /\ pc'[t] = EmulRet /\ pc[t] # EmulRet
    /\ IF PMBD_DEV_SIM_PMBD THEN pc[t] \in {"e_copy", "e_sx", "e_bw", "e_thr", "e_lat", "e_pad"}
       ELSE pc[t] \in {"e_endio", "e_bw", "e_thr", "e_lat", "e_pad"}

\* C17: on a device with a write bandwidth only (wrbw > 0, rdbw = 0, no
\* latency) every write has been through the batch accounting of
\* pmbd_emul_transfer_time when its emulation window ends
C17_WriteBandwidthOnly ==
    [][\A t \in Threads :
          (EndsWriteEmulation(t) /\ g.wrbw > 0 /\ g.rdbw = 0 /\ g.rdlat = 0 /\ g.wrlat = 0)
              => batch'[WRITE].start_cycle # 0]_vars

\* C18: when rdsx or wrsx is given, rdlat, wrlat, rdbw and wrbw are ignored:
\* no request is padded to an access time and none is throttled to a bandwidth
C18_SlowdownOnly ==
    PMBD_DEV_USE_SLOWDOWN => \A t \in Threads : pc[t] \notin {"e_pad", "e_thr"}

\* the holder of the lock process p is spinning on, Free if p spins on no
\* lock or the lock is free
SpinsOn(p) ==
    IF pc[p] \in {"wr_lock", "rd_buf"} THEN pbi_lock[loc[p].pbn]
    ELSE IF pc[p] \in {"ub_lock", "ubr_lock"} /\ PMBD_USE_LOCK THEN pbi_lock[loc[p].pbn]
    ELSE IF pc[p] = "fl_copy" THEN pbi_lock[loc[p].fp]
    ELSE IF pc[p] = "fl_lock" THEN flush_lock[loc[p].b]
    ELSE IF pc[p] \in {"gate", "wb_lock"} THEN wr_barrier_lock
    ELSE Free

\* every process of D spins on a lock held inside D
Deadlocked(D) == D # {} /\ \A p \in D : SpinsOn(p) \in D

\* C19: no set of readers, writers, allocators, flushers and barriers waits
\* on each other's locks forever
C19_NoDeadlock == \A D \in SUBSET Procs : ~Deadlocked(D)

\* the rank of each kind of lock, batch_lock innermost
LockLevel == [batch_lock |-> 1, pbi_lock |-> 2, buffer_lock |-> 3, flush_lock |-> 4, wr_barrier_lock |-> 5]

\* the kinds of lock process p holds
Holds(p) ==
    {k \in DOMAIN LockLevel :
        \/ k = "batch_lock" /\ batch_lock = p
        \/ k = "pbi_lock" /\ \E q \in PBNs : pbi_lock[q] = p
        \/ k = "flush_lock" /\ \E b \in Buffers : flush_lock[b] = p
        \/ k = "wr_barrier_lock" /\ wr_barrier_lock = p}

\* the kinds of lock the next step of process p begins with a spin_lock on
Takes(p) ==
    {k \in DOMAIN LockLevel :
        \/ k = "batch_lock" /\ pc[p] = "e_bw"
        \/ k = "pbi_lock" /\ (pc[p] \in {"wr_lock", "rd_buf", "fl_copy"}
                                \/ (pc[p] \in {"ub_lock", "ubr_lock"} /\ PMBD_USE_LOCK))
        \/ k = "buffer_lock" /\ (pc[p] \in {"wr_alloc", "fl_update"}
                                   \/ (pc[p] = "cf" /\ loc[p].caller \in {CALLER_SYNCER, CALLER_ALLOCATOR}))
        \/ k = "flush_lock" /\ pc[p] = "fl_lock"
        \/ k = "wr_barrier_lock" /\ pc[p] \in {"gate", "wb_lock"}}

\* p is inside pmbd_buffer_alloc_block, with the lock of the block it
\* allocates for
Allocating(p) ==
    /\ p \in Threads
    /\ pc[p] = "wr_alloc" \/ (pc[p] \in {"cf", "fl_lock", "fl_copy", "fl_ro", "fl_update"} /\ loc[p].ret = "wr_alloc")
    /\ pbi_lock[loc[p].pbn] = p

\* C20 as stated: a thread that holds a higher-numbered lock never goes on
\* to acquire a lower-numbered one
C20_LockHierarchy ==
    \A p \in Procs : \A h \in Holds(p) : \A w \in Takes(p) : LockLevel[h] <= LockLevel[w]

\* C20: locks are taken from the highest number inwards: a thread that goes
\* on to acquire a lock holds no lower-numbered lock, except the allocator,
\* which holds the lock of the block it allocates for while it takes
\* buffer_lock and the flush_lock of the flush of a full buffer
C20_LockNesting ==
    \A p \in Procs : \A h \in Holds(p) : \A w \in Takes(p) :
        LockLevel[h] < LockLevel[w]
            => (Allocating(p) /\ h = "pbi_lock" /\ w \in {"buffer_lock", "flush_lock"})

\* the flush of an allocator waits for flush_lock with its block locked,
\* while the holder of flush_lock waits for the lock of a block
C20_NestedWaits ==
    \E t \in Threads : \E q \in Procs \ {t} :
        /\ Allocating(t) /\ pc[t] = "fl_lock" /\ flush_lock[loc[t].b] = q
        /\ pc[q] = "fl_copy" /\ pbi_lock[loc[q].fp] \notin {Free, q}

\* the barrier of thread t has read num_flying_wr = 0 and has not yet
\* released wr_barrier_lock
BarrierQuiesced(t) == wr_barrier_lock = t /\ pc[t] # "wb_wait"

\* thread u is inside copy_to_pmbd for a write
WriteCopying(u) ==
    /\ req[u].rw = WRITE
    /\ \/ pc[u] \in {"wr_lock", "wr_alloc", "ub_lock", "ub_rw", "ub_copy", "ub_ro", "ub_cal", "ub_st"}
       \/ (pc[u] \in {"cf", "fl_lock", "fl_rw", "fl_copy", "fl_ro", "fl_update", "fr_cal", "fr_st"}
              /\ loc[u].ret = "wr_alloc")

\* thread u has passed the gate of wr_barrier_lock with a write and is not
\* yet counted in num_flying_wr
PassedGateUncounted(u) == req[u].rw = WRITE /\ pc[u] = "inc"

\* C21: from the read of num_flying_wr = 0 to the release of wr_barrier_lock
\* no write is copying into a buffer or into PM, and when the barrier reads
\* the counter as zero no write that passed the gate is still uncounted
C21_BarrierQuiescence ==
    \A t \in Threads : \A u \in Threads \ {t} :
        /\ BarrierQuiesced(t) => ~WriteCopying(u)
        /\ (wr_barrier_lock = t /\ pc[t] = "wb_wait" /\ num_flying_wr = 0) => ~PassedGateUncounted(u)

\* C22: whenever the lock of block p is free, p is bound to slot x exactly
\* when slot x of p's buffer records p; so no two blocks share a slot and no
\* slot names a block that does not name it
C22_BindingConsistent ==
    \A p \in PBNs :
        pbi_lock[p] = Free
            => \A x \in BBNs : (pbi_bbn[p] = x) <=> (bbi_pbn[PBN_TO_PMBD_BUFFER_ID(p)][x] = p)

\* an unlocked block is bound to a slot while another unlocked block has
\* been flushed to PM and unbound
C22_BoundAndFlushed ==
    /\ cfg.bufmode
    /\ \E p \in PBNs : \E q \in PBNs \ {p} :
          /\ pbi_lock[p] = Free /\ PMBD_BLOCK_IS_BUFFERED(p)
          /\ pbi_lock[q] = Free /\ ~PMBD_BLOCK_IS_BUFFERED(q) /\ pm[PBN_TO_SECTOR(q)][1] # 0

\* slots of buffer b whose dirty flag is set
DirtyCount(b) == Cardinality({x \in BBNs : bbi_dirty[b][x]})

\* the next step of process p is a critical section of the buffer_lock of
\* buffer b
HoldsBufferLock(p, b) ==
    /\ loc[p].b = b
    /\ \/ pc[p] \in {"wr_alloc", "fl_update", "sy_check", "sy_again"}
       \/ pc[p] = "cf" /\ loc[p].caller \in {CALLER_SYNCER, CALLER_ALLOCATOR}
       \/ pc[p] = "fl_lock" /\ flush_lock[b] = Free

\* C23 as stated: under buffer_lock num_dirty is the number of dirty slots
C23_DirtyCountUnderLock ==
    \A p \in Procs : \A b \in Buffers : HoldsBufferLock(p, b) => num_dirty[b] = DirtyCount(b)

\* C23: under buffer_lock num_dirty is the number of dirty slots when no
\* flush of the buffer is in progress; during a flush it also counts the
\* slots the flush has cleaned and not yet subtracted
C23_DirtyCountNoFlush ==
    \A p \in Procs : \A b \in Buffers :
        HoldsBufferLock(p, b)
            => /\ num_dirty[b] >= DirtyCount(b)
               /\ flush_lock[b] = Free => num_dirty[b] = DirtyCount(b)

\* an allocator is about to take buffer_lock while a flush has cleaned a
\* slot and not yet lowered num_dirty
C23_AllocDuringFlush ==
    \E t \in Threads :
        /\ pc[t] = "wr_alloc"
        /\ flush_lock[loc[t].b] \notin {Free, t}
        /\ num_dirty[loc[t].b] > DirtyCount(loc[t].b)

\* the slots of the ring segment of buffer b from pos_dirty up to, not
\* including, pos_clean: num_dirty slots from pos_dirty on
DirtySegment(b) == {PMBD_BUFFER_NEXT_N_POS(pos_dirty[b], i) : i \in 0 .. (num_dirty[b] - 1)}

\* C24 as stated: in every state every slot of the segment from pos_dirty to
\* pos_clean has its dirty flag set
C24_SegmentDirty == \A b \in Buffers : \A x \in DirtySegment(b) : bbi_dirty[b][x]

\* C24: every slot of the segment from pos_dirty to pos_clean has its dirty
\* flag set whenever no flush of the buffer is in progress; during a flush
\* the clean slots of the segment are slots that flush has scanned
C24_SegmentDirtyNoFlush ==
    \A b \in Buffers : \A x \in DirtySegment(b) :
        bbi_dirty[b][x]
            \/ (flush_lock[b] # Free /\ \E j \in 1 .. Len(fl[b].sort) : fl[b].sort[j].bbn = x)

\* an allocation has completed during a flush: the segment holds a slot the
\* flush has cleaned and a dirty slot bound after the flush made its scan
C24_AllocAfterScan ==
    \E b \in Buffers :
        /\ flush_lock[b] # Free
        /\ \E x \in DirtySegment(b) : ~bbi_dirty[b][x]
        /\ \E y \in DirtySegment(b) :
              bbi_dirty[b][y] /\ \A j \in 1 .. Len(fl[b].sort) : fl[b].sort[j].bbn # y

\* C25: the scan of pmbd_buffer_flush never meets a slot whose dirty flag is
\* clear: the panic at the scan is not reached
C25_NoScanPanic == \A p \in Procs : pc[p] # "panic"

\* a scan has passed that began past slot 0, after an earlier flush moved
\* pos_dirty, while an allocator is inside pmbd_buffer_alloc_block
C25_ScanAmongAllocators ==
    \E p \in Procs : \E t \in Threads \ {p} :
        /\ pc[p] \in {"fl_rw", "fl_copy"} /\ flush_lock[loc[p].b] = p
        /\ fl[loc[p].b].bbn_s # 0 /\ Len(fl[loc[p].b].sort) >= 1
        /\ pc[t] = "wr_alloc"

\* C26: 0 <= num_dirty <= num_blocks always; the allocator never reserves a
\* slot when num_dirty = num_blocks; a flush never subtracts more than the
\* current num_dirty
C26_DirtyCountBounds ==
    /\ [](\A b \in Buffers : num_dirty[b] >= 0 /\ num_dirty[b] <= num_blocks)
    /\ [][\A b \in Buffers :
            /\ num_dirty'[b] > num_dirty[b] => num_dirty[b] < num_blocks
            /\ pos_clean'[b] # pos_clean[b] => num_dirty[b] < num_blocks
            /\ (flush_lock[b] # Free /\ flush_lock'[b] = Free)
                   => fl[b].num_cleaned <= num_dirty[b]]_vars

\* an allocator found the buffer full and went to flush it, while the flush
\* of another caller is about to subtract what it cleaned
C26_FullAndFlushing ==
    \E t \in Threads : \E p \in Procs \ {t} :
        /\ pc[t] \in {"cf", "fl_lock"} /\ loc[t].caller = CALLER_ALLOCATOR
        /\ loc[t].ret = "wr_alloc"
        /\ num_dirty[loc[t].b] = num_blocks
        /\ pc[p] = "fl_update" /\ loc[p].b = loc[t].b
        /\ fl[loc[p].b].num_cleaned >= 1

\* C27: whenever num_dirty < num_blocks the slot at pos_clean is unbound and
\* clean, also while a flusher has unbound slots and has not yet moved
\* pos_dirty or lowered num_dirty
C27_CleanSlotFree ==
    \A b \in Buffers :
        num_dirty[b] < num_blocks =>
            /\ bbi_pbn[b][pos_clean[b]] = BBI_UNBUFFERED
            /\ ~bbi_dirty[b][pos_clean[b]]

\* a flusher has unbound a slot and not yet moved pos_dirty, the buffer is
\* not full, and a writer is about to reserve the slot at pos_clean
C27_ReserveDuringFlush ==
    \E p \in Procs : \E t \in Threads \ {p} :
        LET b == loc[p].b
        IN  /\ pc[p] = "fl_update" /\ flush_lock[b] = p
            /\ fl[b].num_cleaned >= 1
            /\ bbi_pbn[b][pos_dirty[b]] = BBI_UNBUFFERED
            /\ num_dirty[b] < num_blocks
            /\ pc[t] = "wr_alloc" /\ loc[t].b = b

\* a thread that is copying directly from or to PM holds the lock of every
\* block of its range, and an allocator of a slot holds the lock of its block
CopiesLocked ==
    \A t \in Threads :
        /\ pc[t] \in {"ub_copy", "ubr_copy"} => HoldsRange(t)
        /\ pc[t] = "wr_alloc" => pbi_lock[loc[t].pbn] = t

\* a step that stores into a sector of PM is made with the lock of the
\* sector's block held before the step or taken by it
StoresLocked ==
    \A s \in Sectors :
        pm'[s] # pm[s] => (pbi_lock[SECTOR_TO_PBN(s)] # Free \/ pbi_lock'[SECTOR_TO_PBN(s)] # Free)

C29_ChecksumUnderLock ==
    \A p \in Procs :
        (PMBD_USE_LOCK /\ pc[p] \in {"ub_cal", "ub_st", "fr_cal", "fr_st"})
            => pbi_lock[loc[p].fp] = p

\* C30: in page-table protection mode no store of a flusher or of a direct
\* writer hits a read-only page: every copy into a PM page is made while the
\* page is writable
C30_StoresToWritablePages ==
    (PMBD_DEV_USE_WPMODE_PTE /\ PMBD_USE_WRITE_PROTECTION) => \A p \in Procs : pc[p] # "oops"

\* process p leaves the first part of pmbd_buffer_flush in this step: it has
\* taken flush_lock and scanned, or has found nothing to do
FlushScans(p) == pc[p] = "fl_lock" /\ pc'[p] \notin {"fl_lock", "panic"}

\* process p leaves pmbd_buffer_flush in this step, after its last run
FlushReturns(p) == pc[p] = "fl_update" /\ pc'[p] # "fl_update"

\* the budget of the flush of p, clamped to num_dirty
Budget(p) == IF loc[p].n > num_dirty[loc[p].b] THEN num_dirty[loc[p].b] ELSE loc[p].n

\* the Budget(p) oldest slots from pos_dirty on
OldestSlots(p) == {PMBD_BUFFER_NEXT_N_POS(pos_dirty[loc[p].b], i) : i \in 0 .. (Budget(p) - 1)}

\* C31: pmbd_buffer_flush(buffer, budget) takes exactly the min(budget,
\* num_dirty) oldest slots from pos_dirty on, writes each of them to PM and
\* unbinds it, counts them as cleaned, moves pos_dirty forward by that count
\* modulo num_blocks and lowers num_dirty by it; with num_dirty = 0 or
\* budget = 0 it changes nothing
C31_FlushOldest ==
    [][\A p \in Procs :
          LET b == loc[p].b
          IN  /\ (FlushScans(p) /\ Budget(p) = 0)
                     => /\ UNCHANGED <<pm, pbi_bbn, buffer_space, bbi_pbn, bbi_dirty, num_dirty,
                                       pos_dirty, pos_clean, flush_lock, fl>>
                        /\ pc'[p] = loc[p].ret
              /\ (FlushScans(p) /\ Budget(p) > 0)
                     => /\ Len(fl'[b].sort) = Budget(p)
                        /\ {fl'[b].sort[j].bbn : j \in 1 .. Len(fl'[b].sort)} = OldestSlots(p)
                        /\ \A j \in 1 .. Len(fl'[b].sort) : fl'[b].sort[j].pbn = bbi_pbn[b][fl'[b].sort[j].bbn]
              /\ (pc[p] = "fl_ro" /\ pc'[p] # "fl_ro")
                     => \A q \in fl[b].first .. fl[b].last :
                            /\ \A s \in SectorsOf(q) : pm[s] = SlotOf(b, pbi_bbn[q], q)[s]
                            /\ bbi_pbn'[b][pbi_bbn[q]] = BBI_UNBUFFERED
                            /\ pbi_bbn'[q] = PBI_UNBUFFERED
              /\ FlushReturns(p)
                     => /\ fl[b].num_cleaned = Len(fl[b].sort)
                        /\ \A j \in 1 .. Len(fl[b].sort) :
                               /\ bbi_pbn[b][fl[b].sort[j].bbn] = BBI_UNBUFFERED
                               /\ ~bbi_dirty[b][fl[b].sort[j].bbn]
                        /\ pos_dirty'[b] = PMBD_BUFFER_NEXT_N_POS(pos_dirty[b], Len(fl[b].sort))
                        /\ num_dirty'[b] = num_dirty[b] - Len(fl[b].sort)]_vars

\* a flush with a budget below num_dirty has returned: the older slot is
\* free, pos_dirty has moved past it, the younger slot is still dirty
C31_PartialFlushDone ==
    \E b \in Buffers :
        /\ flush_lock[b] = Free /\ num_dirty[b] = 1 /\ pos_dirty[b] = 1
        /\ bbi_pbn[b][0] = BBI_UNBUFFERED /\ bbi_dirty[b][1]
        /\ \A p \in Procs : pc[p] \notin {"fl_lock", "cf"}

\* C32: every block of a run that pmbd_buffer_flush hands to
\* _pmbd_buffer_flush_range is still bound to a slot when its lock is taken:
\* the panic of _pmbd_buffer_flush_range is not reached, with the snapshot
\* sorted by PBN (wpmode 0) or left in ring order (wpmode 1)
C32_RunsAreBuffered == \A p \in Procs : pc[p] # "panic_range"

\* in bypass mode a flush took two slots whose PBNs descend in ring order,
\* flushed the first as a run of its own and has locked and copied the second
C32_RingOrderRuns ==
    \E p \in Procs :
        LET b == loc[p].b
        IN  /\ cfg.wpmode = 1 /\ flush_lock[b] = p /\ pc[p] = "fl_ro"
            /\ Len(fl[b].sort) = 2 /\ fl[b].sort[1].pbn > fl[b].sort[2].pbn
            /\ fl[b].first = fl[b].sort[2].pbn /\ pbi_lock[fl[b].first] = p
            /\ fl[b].num_cleaned = 1

\* thread t is in pmbd_buffer_alloc_block and has found the buffer full
NeedsSlot(t) ==
    \/ pc[t] = "wr_alloc" /\ PMBD_BUFFER_IS_FULL(loc[t].b)
    \/ pc[t] \in {"cf", "fl_lock"} /\ loc[t].ret = "wr_alloc"

\* C33: under fair scheduling a writer that needs a slot while the buffer
\* is full obtains one in the end, also when other writers keep taking the
\* slots that the flushes free
C33_SlotEventually == \A t \in Threads : NeedsSlot(t) ~> (pc[t] = "endio")

\* the watermarks of pmbd.h, in tenths of the slot count
AtHighWatermark(b) == 10 * num_dirty[b] >= 7 * num_blocks

AtLowWatermark(b) == 10 * num_dirty[b] >= 1 * num_blocks

\* the syncer of buffer loc[p].b calls pmbd_buffer_check_and_flush
SyncerFlushes(p) == pc[p] \in {"sy_check", "sy_again"} /\ pc'[p] = "cf"

\* C34: the syncer starts to flush only at or above the low watermark, and
\* at the high watermark it does nothing else; every flush it starts is one
\* batch; after a batch it goes on exactly when the buffer is still at or
\* above the low watermark, and goes back to sleep otherwise.
C34_SyncerWatermarks ==
    /\ [](\A p \in Syncers :
            pc[p] = "sy_check" /\ nsync < load.maxsync /\ AtHighWatermark(loc[p].b)
                => ENABLED pmbd_syncer_worker(p))
    /\ [][\A p \in Syncers :
            /\ SyncerFlushes(p)
                  => /\ AtLowWatermark(loc[p].b)
                     /\ loc'[p].n = BatchSize
                     /\ loc'[p].caller = CALLER_SYNCER
            /\ pc[p] = "sy_check" /\ pc'[p] # "sy_check" => pc'[p] = "cf"
            /\ pc[p] = "sy_again" /\ pc'[p] # "sy_again"
                  => pc'[p] = (IF AtLowWatermark(loc[p].b) THEN "cf" ELSE "sy_check")
            /\ FlushReturns(p) /\ loc[p].caller = CALLER_SYNCER
                  => Len(fl[loc[p].b].sort) <= BatchSize]_vars

\* a syncer has flushed a batch and
\* finds the buffer below the low watermark
C34_SyncerStops ==
    \E p \in Syncers :
        /\ pc[p] = "sy_again"
        /\ ~AtLowWatermark(loc[p].b)
        /\ nsync = 1

\* more than the idle threshold of time has passed since the last request
\* stamped the access time
RealIdle == (jiffies - last_access_jiffies) * UsecPerJiffy > PMBD_BUFFER_FLUSH_IDLE_TIMEOUT

\* the syncer p ends its idle test in this step
IdleTestDone(p) == Timed /\ pc[p] = "sy_now" /\ pc'[p] # "sy_now"

\* C34 (the idle condition): a round of the syncer starts to flush only at
\* the high watermark, or when the device has really been idle longer than
\* the threshold and the buffer is at the low watermark.
C34_StartsWhenIdle ==
    [][\A p \in Syncers :
          IdleTestDone(p) /\ pc'[p] = "cf"
              => AtHighWatermark(loc[p].b) \/ (RealIdle /\ AtLowWatermark(loc[p].b))]_vars

\* C38: the idle test of the syncer reports the device idle only if more
\* than the threshold has passed since the last request.
C38_IdleOnlyIfElapsed ==
    [][\A p \in Syncers :
          IdleTestDone(p) /\ loc'[p].idle_usec # <<0, 0>> => RealIdle]_vars

\* process p takes a step inside a flush of a buffer
FlushStep(p) == pc[p] \in {"cf", "fl_lock", "fl_copy", "fl_ro", "fl_update"} /\ pc'[p] # pc[p]

\* no request is in progress
AllCompleted == \A t \in Threads : pc[t] = "idle"

\* C35: buffering is transparent.  No step of a flush (of the syncer, of an
\* allocator, of a barrier) changes the content a read of any sector is
\* served from; and once every request has completed that content is, for
\* a buffered device as for an unbuffered one, a content the completed
\* writes of the sector account for.
C35_FlushTransparent ==
    /\ [](AllCompleted => \A s \in Sectors : Logical(s) \in cands[s])
    /\ [][\A p \in Procs :
            FlushStep(p) => \A s \in Sectors : Logical(s)' = Logical(s)]_vars

\* a read is about to complete on a buffered device with the data of an
\* earlier write, served from PM: the block has been flushed and unbound
C35_ReadAfterFlush ==
    \E t \in Threads :
        /\ cfg.bufmode
        /\ pc[t] = "endio" /\ req[t].rw = READ
        /\ Len(out[t]) = req[t].nsect /\ req[t].nsect > 0
        /\ out[t][1][1] # 0
        /\ ~PMBD_BLOCK_IS_BUFFERED(SECTOR_TO_PBN(req[t].sector))
        /\ out[t][1] = pm[req[t].sector]

\* thread t goes through pmbd_emul_transfer_time in this step
TransferStep(t) == pc[t] = "e_bw" /\ pc'[t] # "e_bw"

\* the request of t comes too long after the last one of its direction
GapTriggered(t) ==
    cycle_to_ns(now - batch[req[t].rw].end_cycle) >= PMBD_BATCH_MAX_INTERVAL

\* with the request of t the batch of its direction reaches the limit of
\* its sectors or of its duration
SizeTriggered(t) ==
    LET b == batch[req[t].rw]
    IN  \/ b.sectors + req[t].nsect >= PMBD_BATCH_MAX_SECTORS
        \/ cycle_to_ns(now - b.start_cycle) >= PMBD_BATCH_MAX_DURATION

\* a batch of the direction of t is open
BatchOpen(t) == batch[req[t].rw].start_cycle # 0

\* C36: the batch state machine.  The first request of a direction opens a
\* batch that holds its sectors; a request that triggers a limit (gap,
\* sectors, duration) closes the batch and opens a new one that holds its
\* sectors; any other request adds its sectors to the open batch.
C36_BatchMachine ==
    [][\A t \in Threads :
          TransferStep(t)
              => LET rw == req[t].rw
                     n == req[t].nsect
                 IN  IF ~BatchOpen(t) \/ GapTriggered(t) \/ SizeTriggered(t)
                     THEN batch'[rw] = [start_cycle |-> now, end_cycle |-> now, sectors |-> n]
                     ELSE batch'[rw] = [batch[rw] EXCEPT !.sectors = @ + n, !.end_cycle = now]]_vars

\* the batch that the request of t closes: the open one as it is when the
\* gap is too long, the open one with the request in it otherwise
ClosedBatch(t) ==
    LET b == batch[req[t].rw]
    IN  IF GapTriggered(t) THEN b ELSE [b EXCEPT !.sectors = @ + req[t].nsect, !.end_cycle = now]

\* C37: a request that closes a batch of at least PMBD_BATCH_MIN_SECTORS
\* sectors whose real duration is below the time the bandwidth allows
\* busy-waits with batch_lock held; a request that closes a smaller batch
\* does not wait.
C37_ThrottleAtClose ==
    [][\A t \in Threads :
          TransferStep(t) /\ BatchOpen(t) /\ (GapTriggered(t) \/ SizeTriggered(t))
              => LET cb == ClosedBatch(t)
                     real_ns == cycle_to_ns(cb.end_cycle - cb.start_cycle)
                     target_ns == cal_trans_time(cb.sectors, req[t].rw)
                 IN  IF cb.sectors >= PMBD_BATCH_MIN_SECTORS /\ real_ns < target_ns
                     THEN pc'[t] = "e_thr" /\ batch_lock' = t
                     ELSE pc'[t] # "e_thr" /\ batch_lock' = Free]_vars

(***************************************************************************)
(* The marker of a block that is not buffered                              *)
(***************************************************************************)
\* the device is registered with its buffer: every PBI holds the marker
LoadedBuffered == ld.pc = "loaded" /\ ConfigOf(g).bufmode

\* C39: on every loaded device with a buffer the bbn that marks a block as
\* not buffered is no slot index of the buffer (it is >= num_blocks), so a
\* block that was never written is not reported as buffered
C39_MarkerNotSlot ==
    LoadedBuffered => ~BLOCK_IS_BUFFERED(g, SET_BLOCK_UNBUFFERED(g))

\* a loaded device whose buffer has no more slots than the device has blocks
C39_SmallBuffer ==
    /\ LoadedBuffered
    /\ buffer_num_blocks(g) <= TOTAL_PB_NUM(g)
    /\ ~BLOCK_IS_BUFFERED(g, SET_BLOCK_UNBUFFERED(g))

(***************************************************************************)
(* Termination of pmbd_write_barrier.  The wait of the barrier is the loop *)
(* while (atomic_read(&pmbd->num_flying_wr) != 0); each turn of the loop   *)
(* is one read of the counter, and a read that finds it non-zero changes   *)
(* nothing.  Fair scheduling lets the barrier read the counter again and   *)
(* again; it does not choose the moments of the reads, which is weak       *)
(* fairness of write_barrier_wait.                                         *)
(***************************************************************************)
\* thread t holds wr_barrier_lock and reads the counter of requests in flight
BarrierWaits(t) == pc[t] = "wb_wait"

\* pmbd_write_barrier has returned: the bio is at the write gate
BarrierDone(t) == pc[t] = "gate"

\* C40: every barrier completes: the wait for num_flying_wr = 0 ends while
\* other threads keep submitting reads and writes, and so does the drain of
\* the buffers
C40_BarrierCompletes == \A t \in Threads : BarrierWaits(t) ~> BarrierDone(t)

\* the drain of the buffers ends once the wait is over
C40_DrainCompletes == \A t \in Threads : (pc[t] = "wb_flush") ~> (pc[t] = "wb_unlock")

=============================================================================
